---- MODULE Spec2Model ----
(***************************************************************************)
(* Conversion engine of the unit converter: the numeric formatter, the     *)
(* unit tables of the length, volume, weight and temperature categories,   *)
(* the convert<Category> engines, the name look-ups and the time engine.   *)
(*                                                                         *)
(* A JavaScript number is an IEEE-754 binary64 value.  It is modelled      *)
(* bit-exactly: a finite number is sign, 53-bit significand and exponent,  *)
(* and every arithmetic operation rounds to nearest, ties to even, as the  *)
(* language requires.  Significands exceed the range of the model          *)
(* checker's integers, so they are kept as little-endian sequences of      *)
(* 15-bit limbs.                                                           *)
(***************************************************************************)
EXTENDS Integers, Sequences, FiniteSets, TLC

(***************************************************************************)
(* Natural numbers of arbitrary size: <<l1, l2, ...>> is l1 + l2*LB + ...  *)
(* with no leading (rightmost) zero limb; zero is <<>>.                    *)
(***************************************************************************)
LB == 2^15

Max(a, b) == IF a >= b THEN a ELSE b
Min(a, b) == IF a <= b THEN a ELSE b

Limb(a, i) == IF 1 <= i /\ i <= Len(a) THEN a[i] ELSE 0

\* a without its leading zero limbs
RECURSIVE BNorm(_)
BNorm(a) == IF a = <<>> THEN <<>>
            ELSE IF a[Len(a)] = 0 THEN BNorm(SubSeq(a, 1, Len(a) - 1))
            ELSE a

\* a natural number below 2^31
BFromNat(n) == BNorm(<<n % LB, (n \div LB) % LB, n \div (LB * LB)>>)

\* the inverse of BFromNat
BToNat(b) == Limb(b, 1) + LB * Limb(b, 2) + LB * LB * Limb(b, 3)

\* a + b + c from limb i on, two limbs a step
RECURSIVE BAddC(_, _, _, _)
BAddC(a, b, i, c) ==
    IF i > Len(a) /\ i > Len(b)
    THEN (IF c = 0 THEN <<>> ELSE <<c>>)
    ELSE << (Limb(a, i) + Limb(b, i) + c) % LB,
            (Limb(a, i + 1) + Limb(b, i + 1) + ((Limb(a, i) + Limb(b, i) + c) \div LB)) % LB >>
           \o BAddC(a, b, i + 2,
                    (Limb(a, i + 1) + Limb(b, i + 1) + ((Limb(a, i) + Limb(b, i) + c) \div LB)) \div LB)

BAdd(a, b) == BNorm(BAddC(a, b, 1, 0))

\* 1 when the limb difference x is negative
Borrow(x) == 1 - ((LB + x) \div LB)

\* a - b - c from limb i on for a >= b, two limbs a step
RECURSIVE BSubC(_, _, _, _)
BSubC(a, b, i, c) ==
    IF i > Len(a) THEN <<>>
    ELSE << (LB + a[i] - Limb(b, i) - c) % LB,
            (LB + Limb(a, i + 1) - Limb(b, i + 1) - Borrow(a[i] - Limb(b, i) - c)) % LB >>
           \o BSubC(a, b, i + 2,
                    Borrow(Limb(a, i + 1) - Limb(b, i + 1) - Borrow(a[i] - Limb(b, i) - c)))

BSub(a, b) == BNorm(BSubC(a, b, 1, 0))

\* -1, 0, 1 as a < b, a = b, a > b
RECURSIVE BCmpAt(_, _, _)
BCmpAt(a, b, i) ==
    IF i = 0 THEN 0
    ELSE IF a[i] < b[i] THEN -1
    ELSE IF a[i] > b[i] THEN 1
    ELSE BCmpAt(a, b, i - 1)

BCmp(a, b) == IF Len(a) < Len(b) THEN -1
              ELSE IF Len(a) > Len(b) THEN 1
              ELSE BCmpAt(a, b, Len(a))

\* a * k + c from limb i on for 0 <= k <= LB, two limbs a step
RECURSIVE BMulSmallC(_, _, _, _)
BMulSmallC(a, k, i, c) ==
    IF i > Len(a) THEN BFromNat(c)
    ELSE << (a[i] * k + c) % LB,
            (Limb(a, i + 1) * k + ((a[i] * k + c) \div LB)) % LB >>
           \o BMulSmallC(a, k, i + 2, (Limb(a, i + 1) * k + ((a[i] * k + c) \div LB)) \div LB)

BMulSmall(a, k) == BNorm(BMulSmallC(a, k, 1, 0))

\* <<a \div k, a % k>> for 0 < k <= LB
RECURSIVE BDivSmallC(_, _, _, _)
BDivSmallC(a, k, i, r) ==
    IF i = 0 THEN <<<<>>, r>>
    ELSE LET cur  == r * LB + a[i]
             rest == BDivSmallC(a, k, i - 1, cur % k)
         IN  <<rest[1] \o <<cur \div k>>, rest[2]>>

BDivSmall(a, k) == LET Norm(qr) == <<BNorm(qr[1]), qr[2]>>
                   IN  Norm(BDivSmallC(a, k, Len(a), 0))

\* a * 2^n
BShl(a, n) ==
    BNorm([i \in 1..(Len(a) + (n \div 15) + 1) |->
              ((Limb(a, i - (n \div 15)) * 2^(n % 15)) % LB)
                + (Limb(a, i - (n \div 15) - 1) \div 2^(15 - (n % 15)))])

\* a \div 2^n
BShr(a, n) ==
    IF n \div 15 >= Len(a) THEN <<>>
    ELSE BNorm([i \in 1..(Len(a) - (n \div 15)) |->
                   (a[i + (n \div 15)] \div 2^(n % 15))
                     + ((Limb(a, i + (n \div 15) + 1) % 2^(n % 15)) * 2^(15 - (n % 15)))])

\* the number of bits of a limb
BitLenNat(n) == CHOOSE k \in 0..15 : n < 2^k /\ (k = 0 \/ 2^(k - 1) <= n)

BBitLen(a) == IF a = <<>> THEN 0 ELSE 15 * (Len(a) - 1) + BitLenNat(a[Len(a)])

BOdd(a) == a # <<>> /\ a[1] % 2 = 1

\* bit i of a, bit 0 the lowest
BBit(a, i) == (Limb(a, (i \div 15) + 1) \div 2^(i % 15)) % 2

\* a is a multiple of 2^n
BLowZero(a, n) ==
    /\ \A j \in 1..(n \div 15) : Limb(a, j) = 0
    /\ Limb(a, (n \div 15) + 1) % 2^(n % 15) = 0

\* the numbers as limb sequences; [v \in BigNat |-> F(v)][e] is F(e) with e
\* evaluated before F, as the source language evaluates an argument
BigNat == Seq(Nat)

\* acc + a * (b from limb i on) * LB^(i - 1)
RECURSIVE BMulAt(_, _, _, _)
BMulAt(a, b, i, acc) ==
    IF i > Len(b) THEN acc
    ELSE [sum \in BigNat |-> BMulAt(a, b, i + 1, sum)
         ][BAdd(acc, [j \in 1..(i - 1) |-> 0] \o BMulSmall(a, b[i]))]

BMul(a, b) == BMulAt(a, b, 1, <<>>)

\* the largest d <= est with b * d <= r
RECURSIVE FixDigit(_, _, _)
FixDigit(b, r, d) == IF BCmp(BMulSmall(b, d), r) > 0 THEN FixDigit(b, r, d - 1) ELSE d

\* the next quotient limb: the two top limbs of r by the top limb of b, fixed
BDivDigit(b, r) ==
    FixDigit(b, r, Min(LB - 1, (Limb(r, Len(b) + 1) * LB + Limb(r, Len(b))) \div b[Len(b)]))

\* r with limb i of a brought down
BDivBring(a, i, r) == BNorm(<<a[i]>> \o r)

\* long division by limbs, limb i of a downwards, for b with its top limb
\* at least LB / 2; r is the remainder and q the quotient limbs so far
RECURSIVE BDivLimbs(_, _, _, _, _)
BDivLimbs(a, b, i, r, q) ==
    IF i <= 0 THEN <<q, r>>
    ELSE [r1 \in BigNat |->
             IF BCmp(r1, b) < 0 THEN BDivLimbs(a, b, i - 1, r1, <<0>> \o q)
             ELSE [d \in Nat |-> BDivLimbs(a, b, i - 1, BSub(r1, BMulSmall(b, d)), <<d>> \o q)
                  ][BDivDigit(b, r1)]
         ][BDivBring(a, i, r)]

\* <<a \div b, a % b>> for b # 0: the limbs of a above the lowest
\* Len(a) - Len(b) + 1 are below b and start the remainder
BDivMod(a, b) ==
    LET k == 15 - BitLenNat(b[Len(b)])
        Out(qr) == <<BNorm(qr[1]), BShr(qr[2], k)>>
        Divide(a1, n) == Out(BDivLimbs(a1, BShl(b, k), n, BNorm(SubSeq(a1, n + 1, Len(a1))), <<>>))
    IN  IF Len(a) < Len(b) THEN <<<<>>, a>>
        ELSE Divide(BShl(a, k), Len(BShl(a, k)) - Len(b) + 1)

(***************************************************************************)
(* IEEE-754 binary64.  A number is [k, s, m, e]: k = "fin" is               *)
(* (-1)^s * m * 2^e with m = <<>> (zero, e = 0), or 2^52 <= m < 2^53 and   *)
(* e >= MinExp, or m < 2^52 and e = MinExp (subnormal); k = "inf" is the   *)
(* infinity of sign s; k = "nan" is NaN.                                   *)
(***************************************************************************)
MantBits == 53
MinExp == -1074
MaxExp == 971

Fin(s, m, e) == [k |-> "fin", s |-> s, m |-> m, e |-> e]
Zero(s) == Fin(s, <<>>, 0)
Inf(s) == [k |-> "inf", s |-> s, m |-> <<>>, e |-> 0]
NaN == [k |-> "nan", s |-> 0, m |-> <<>>, e |-> 0]

\* the numbers; [v \in Double |-> F(v)][e] is F(e) with e evaluated before F
Double == [k : {"fin", "inf", "nan"}, s : {0, 1}, m : BigNat, e : Int]

IsNaN(x) == x.k = "nan"
IsFinite(x) == x.k = "fin"
IsZero(x) == x.k = "fin" /\ x.m = <<>>

\* the double nearest to (-1)^s * M * 2^E, ties to even: M is cut sh bits
\* short and rounded up when the first bit cut is set and either a lower bit
\* or the last bit kept is
DRound(s, M, E) ==
    IF M = <<>> THEN Zero(s)
    ELSE LET Pack(m2, e2) == IF e2 > MaxExp THEN Inf(s) ELSE Fin(s, m2, e2)
             Carry(q1, e1) == IF q1 = <<>> THEN Zero(s)
                              ELSE IF BBitLen(q1) > MantBits THEN Pack(BShr(q1, 1), e1 + 1)
                              ELSE Pack(q1, e1)
             Cut(q, sh, e1) ==
                 Carry(IF BBit(M, sh - 1) = 1 /\ (~BLowZero(M, sh - 1) \/ BBit(M, sh) = 1)
                       THEN BAdd(q, <<1>>) ELSE q, e1)
             At(e1) == IF e1 <= E THEN Pack(BShl(M, E - e1), e1)
                       ELSE Cut(BShr(M, e1 - E), e1 - E, e1)
         IN  At(Max(E + BBitLen(M) - MantBits, MinExp))

\* the number an integer literal denotes
FromInt(n) == DRound(IF n < 0 THEN 1 ELSE 0, BFromNat(IF n < 0 THEN -n ELSE n), 0)

DNeg(x) == IF IsNaN(x) THEN x ELSE [x EXCEPT !.s = 1 - x.s]
DAbs(x) == IF IsNaN(x) THEN x ELSE [x EXCEPT !.s = 0]

Xor(a, b) == (a + b) % 2

\* x * y
DMul(x, y) ==
    IF IsNaN(x) \/ IsNaN(y) THEN NaN
    ELSE IF x.k = "inf" \/ y.k = "inf"
         THEN (IF IsZero(x) \/ IsZero(y) THEN NaN ELSE Inf(Xor(x.s, y.s)))
    ELSE DRound(Xor(x.s, y.s), BMul(x.m, y.m), x.e + y.e)

\* x / y
DDiv(x, y) ==
    IF IsNaN(x) \/ IsNaN(y) THEN NaN
    ELSE IF x.k = "inf" THEN (IF y.k = "inf" THEN NaN ELSE Inf(Xor(x.s, y.s)))
    ELSE IF y.k = "inf" THEN Zero(Xor(x.s, y.s))
    ELSE IF IsZero(y) THEN (IF IsZero(x) THEN NaN ELSE Inf(Xor(x.s, y.s)))
    ELSE IF IsZero(x) THEN Zero(Xor(x.s, y.s))
    ELSE LET sh == 56 + BBitLen(y.m) - BBitLen(x.m)
         IN  [qr \in BigNat \X BigNat |->
                  DRound(Xor(x.s, y.s),
                         BAdd(BMulSmall(qr[1], 2), IF qr[2] = <<>> THEN <<>> ELSE <<1>>),
                         x.e - y.e - sh - 1)
             ][BDivMod(BShl(x.m, sh), y.m)]

\* x + y
DAdd(x, y) ==
    IF IsNaN(x) \/ IsNaN(y) THEN NaN
    ELSE IF x.k = "inf" THEN (IF y.k = "inf" /\ y.s # x.s THEN NaN ELSE x)
    ELSE IF y.k = "inf" THEN y
    ELSE IF IsZero(x) /\ IsZero(y) THEN (IF x.s = 1 /\ y.s = 1 THEN Zero(1) ELSE Zero(0))
    ELSE IF IsZero(x) THEN y
    ELSE IF IsZero(y) THEN x
    ELSE LET E == Min(x.e, y.e)
             Sum(mx, my) ==
                 IF x.s # y.s /\ mx = my THEN Zero(0)
                 ELSE DRound(IF x.s = y.s \/ BCmp(mx, my) > 0 THEN x.s ELSE y.s,
                             IF x.s = y.s THEN BAdd(mx, my)
                             ELSE IF BCmp(mx, my) > 0 THEN BSub(mx, my)
                             ELSE BSub(my, mx),
                             E)
         IN  Sum(BShl(x.m, x.e - E), BShl(y.m, y.e - E))

\* x - y
DSub(x, y) == DAdd(x, DNeg(y))

\* -1, 0, 1 as |x| < |y|, |x| = |y|, |x| > |y|, for finite x and y
MagCmp(x, y) ==
    IF IsZero(x) \/ IsZero(y)
    THEN (IF IsZero(x) /\ IsZero(y) THEN 0 ELSE IF IsZero(x) THEN -1 ELSE 1)
    ELSE LET E == Min(x.e, y.e)
         IN  IF x.e + BBitLen(x.m) # y.e + BBitLen(y.m)
             THEN (IF x.e + BBitLen(x.m) < y.e + BBitLen(y.m) THEN -1 ELSE 1)
             ELSE BCmp(BShl(x.m, x.e - E), BShl(y.m, y.e - E))

\* x < y
DLt(x, y) ==
    IF IsNaN(x) \/ IsNaN(y) THEN FALSE
    ELSE IF x.k = "inf" THEN x.s = 1 /\ ~(y.k = "inf" /\ y.s = 1)
    ELSE IF y.k = "inf" THEN y.s = 0
    ELSE IF IsZero(x) /\ IsZero(y) THEN FALSE
    ELSE IF x.s # y.s THEN x.s = 1
    ELSE IF x.s = 0 THEN MagCmp(x, y) < 0
    ELSE MagCmp(x, y) > 0

\* x === y
DEq(x, y) == IF IsNaN(x) \/ IsNaN(y) THEN FALSE
             ELSE IF IsZero(x) /\ IsZero(y) THEN TRUE
             ELSE x = y

DLe(x, y) == DLt(x, y) \/ DEq(x, y)

\* the number a decimal literal n / 10^d denotes
Dec(n, d) == DDiv(FromInt(n), FromInt(10^d))

\* Math.abs
MathAbs(x) == DAbs(x)

\* Math.round: the nearest integer, a tie towards +Infinity; -0 for -0.5 <= x <= -0
MathRound(x) ==
    IF x.k # "fin" \/ IsZero(x) \/ x.e >= 0 THEN x
    ELSE DRound(x.s,
                IF BBit(x.m, -x.e - 1) = 1 /\ (x.s = 0 \/ ~BLowZero(x.m, -x.e - 1))
                THEN BAdd(BShr(x.m, -x.e), <<1>>) ELSE BShr(x.m, -x.e),
                0)

\* the fraction cut off: rounding toward zero
MathFloorTowardZero(x) ==
    IF x.k # "fin" \/ IsZero(x) \/ x.e >= 0 THEN x
    ELSE DRound(x.s, BShr(x.m, -x.e), 0)

\* Math.floor
MathFloor(x) ==
    IF x.k # "fin" \/ IsZero(x) \/ x.e >= 0 THEN x
    ELSE DRound(x.s,
                IF x.s = 1 /\ ~BLowZero(x.m, -x.e)
                THEN BAdd(BShr(x.m, -x.e), <<1>>) ELSE BShr(x.m, -x.e),
                0)

(***************************************************************************)
(* Strings are sequences of one-character strings; a character outside    *)
(* ASCII is written as its code point ("U+221E" is the infinity sign).     *)
(***************************************************************************)
DigitChar(d) == <<"0", "1", "2", "3", "4", "5", "6", "7", "8", "9">>[d + 1]

RECURSIVE PadLeft(_, _)
PadLeft(ds, n) == IF Len(ds) >= n THEN ds ELSE PadLeft(<<"0">> \o ds, n)

\* String(n) for a natural number n
RECURSIVE NatChars(_)
NatChars(n) == IF n < 10 THEN <<DigitChar(n)>> ELSE NatChars(n \div 10) \o <<DigitChar(n % 10)>>

\* the decimal digits of a natural number, most significant first, four at a time
RECURSIVE BDigits(_)
BDigits(n) ==
    IF n = <<>> THEN <<>>
    ELSE LET Emit(qr) == IF qr[1] = <<>> THEN NatChars(qr[2])
                         ELSE BDigits(qr[1]) \o PadLeft(NatChars(qr[2]), 4)
         IN  Emit(BDivSmall(n, 10000))

\* en-US grouping: a comma before every group of three integer digits
RECURSIVE Grouped(_)
Grouped(ds) ==
    IF Len(ds) <= 3 THEN ds
    ELSE Grouped(SubSeq(ds, 1, Len(ds) - 3)) \o <<",">> \o SubSeq(ds, Len(ds) - 2, Len(ds))

RECURSIVE StripZeros(_, _)
StripZeros(ds, n) ==
    IF Len(ds) > n /\ ds[Len(ds)] = "0" THEN StripZeros(SubSeq(ds, 1, Len(ds) - 1), n)
    ELSE ds

\* digits beyond the last kept one cut off instead of rounded
ToRawFixedTruncating(x, f) ==
    IF x.e >= 0 THEN BShl(BMulSmall(x.m, 10^f), x.e) ELSE BShr(BMulSmall(x.m, 10^f), -x.e)

\* |x| * 10^f rounded to an integer, a tie away from zero (x finite, f <= 3)
ToRawFixed(x, f) ==
    LET Scale(p) == IF x.e >= 0 THEN BShl(p, x.e)
                    ELSE IF BBit(p, -x.e - 1) = 1 THEN BAdd(BShr(p, -x.e), <<1>>)
                    ELSE BShr(p, -x.e)
    IN  Scale(BMulSmall(x.m, 10^f))

\* Number.prototype.toLocaleString('en-US', {minimumFractionDigits: minFD,
\* maximumFractionDigits: maxFD})
ToLocaleString(x, minFD, maxFD) ==
    IF IsNaN(x) THEN <<"N", "a", "N">>
    ELSE LET sign == IF x.s = 1 THEN <<"-">> ELSE <<>>
         IN  IF x.k = "inf" THEN sign \o <<"U+221E">>
             ELSE LET Join(int, frac) ==
                          sign \o Grouped(int) \o (IF frac = <<>> THEN <<>> ELSE <<".">> \o frac)
                      Split(ds) ==
                          Join(SubSeq(ds, 1, Len(ds) - maxFD),
                               StripZeros(SubSeq(ds, Len(ds) - maxFD + 1, Len(ds)), minFD))
                  IN  Split(PadLeft(BDigits(ToRawFixed(x, maxFD)), maxFD + 1))

WholeEpsilon == Dec(1, 4)

\* whole only when equal to its rounding
isWholeNumberExactly(num) == DEq(num, MathRound(num))

isWholeNumber(num) == DLt(MathAbs(DSub(num, MathRound(num))), WholeEpsilon)

formatNumber(num) ==
    [n \in Double |-> IF isWholeNumber(n)
                      THEN ToLocaleString(MathRound(n), 0, 3)
                      ELSE ToLocaleString(n, 2, 2)
    ][num]

(***************************************************************************)
(* Unit tables.  An object literal is the sequence of its own properties   *)
(* in declaration order, which is the order Object.values enumerates.  A   *)
(* unit's toBase and fromBase closures are <<"mul", c>> (value * c),       *)
(* <<"div", c>> (value / c) or <<"id">> (value).                           *)
(***************************************************************************)
volumeUnitsTable == <<
    [key |-> "milliliter",
     val |-> [id |-> "milliliter", name |-> <<"M", "i", "l", "l", "i", "l", "i", "t", "e", "r", "s">>,
              symbol |-> <<"m", "L">>,
              toBase |-> <<"div", FromInt(1000)>>, fromBase |-> <<"mul", FromInt(1000)>>]],
    [key |-> "liter",
     val |-> [id |-> "liter", name |-> <<"L", "i", "t", "e", "r", "s">>,
              symbol |-> <<"L">>,
              toBase |-> <<"id">>, fromBase |-> <<"id">>]],
    [key |-> "fluidOunce",
     val |-> [id |-> "fluidOunce", name |-> <<"F", "l", "u", "i", "d", " ", "O", "u", "n", "c", "e", "s">>,
              symbol |-> <<"f", "l", " ", "o", "z">>,
              toBase |-> <<"mul", Dec(295735, 7)>>, fromBase |-> <<"div", Dec(295735, 7)>>]],
    [key |-> "cup",
     val |-> [id |-> "cup", name |-> <<"C", "u", "p", "s">>,
              symbol |-> <<"c", "u", "p">>,
              toBase |-> <<"mul", Dec(236588, 6)>>, fromBase |-> <<"div", Dec(236588, 6)>>]],
    [key |-> "pint",
     val |-> [id |-> "pint", name |-> <<"P", "i", "n", "t", "s">>,
              symbol |-> <<"p", "t">>,
              toBase |-> <<"mul", Dec(473176, 6)>>, fromBase |-> <<"div", Dec(473176, 6)>>]],
    [key |-> "quart",
     val |-> [id |-> "quart", name |-> <<"Q", "u", "a", "r", "t", "s">>,
              symbol |-> <<"q", "t">>,
              toBase |-> <<"mul", Dec(946353, 6)>>, fromBase |-> <<"div", Dec(946353, 6)>>]],
    [key |-> "gallon",
     val |-> [id |-> "gallon", name |-> <<"G", "a", "l", "l", "o", "n", "s">>,
              symbol |-> <<"g", "a", "l">>,
              toBase |-> <<"mul", Dec(378541, 5)>>, fromBase |-> <<"div", Dec(378541, 5)>>]] >>

lengthUnitsTable == <<
    [key |-> "kilometer",
     val |-> [id |-> "kilometer", name |-> <<"K", "i", "l", "o", "m", "e", "t", "e", "r", "s">>,
              symbol |-> <<"k", "m">>,
              toBase |-> <<"mul", FromInt(1000)>>, fromBase |-> <<"div", FromInt(1000)>>]],
    [key |-> "mile",
     val |-> [id |-> "mile", name |-> <<"M", "i", "l", "e", "s">>,
              symbol |-> <<"m", "i">>,
              toBase |-> <<"mul", Dec(1609344, 3)>>, fromBase |-> <<"div", Dec(1609344, 3)>>]],
    [key |-> "inch",
     val |-> [id |-> "inch", name |-> <<"I", "n", "c", "h", "e", "s">>,
              symbol |-> <<"i", "n">>,
              toBase |-> <<"mul", Dec(254, 4)>>, fromBase |-> <<"div", Dec(254, 4)>>]],
    [key |-> "foot",
     val |-> [id |-> "foot", name |-> <<"F", "e", "e", "t">>,
              symbol |-> <<"f", "t">>,
              toBase |-> <<"mul", Dec(3048, 4)>>, fromBase |-> <<"div", Dec(3048, 4)>>]],
    [key |-> "yard",
     val |-> [id |-> "yard", name |-> <<"Y", "a", "r", "d", "s">>,
              symbol |-> <<"y", "d">>,
              toBase |-> <<"mul", Dec(9144, 4)>>, fromBase |-> <<"div", Dec(9144, 4)>>]],
    [key |-> "millimeter",
     val |-> [id |-> "millimeter", name |-> <<"M", "i", "l", "l", "i", "m", "e", "t", "e", "r", "s">>,
              symbol |-> <<"m", "m">>,
              toBase |-> <<"div", FromInt(1000)>>, fromBase |-> <<"mul", FromInt(1000)>>]],
    [key |-> "centimeter",
     val |-> [id |-> "centimeter", name |-> <<"C", "e", "n", "t", "i", "m", "e", "t", "e", "r", "s">>,
              symbol |-> <<"c", "m">>,
              toBase |-> <<"div", FromInt(100)>>, fromBase |-> <<"mul", FromInt(100)>>]],
    [key |-> "meter",
     val |-> [id |-> "meter", name |-> <<"M", "e", "t", "e", "r", "s">>,
              symbol |-> <<"m">>,
              toBase |-> <<"id">>, fromBase |-> <<"id">>]] >>

weightUnitsTable == <<
    [key |-> "gram",
     val |-> [id |-> "gram", name |-> <<"G", "r", "a", "m", "s">>,
              symbol |-> <<"g">>,
              toBase |-> <<"div", FromInt(1000)>>, fromBase |-> <<"mul", FromInt(1000)>>]],
    [key |-> "kilogram",
     val |-> [id |-> "kilogram", name |-> <<"K", "i", "l", "o", "g", "r", "a", "m", "s">>,
              symbol |-> <<"k", "g">>,
              toBase |-> <<"id">>, fromBase |-> <<"id">>]],
    [key |-> "metricTon",
     val |-> [id |-> "metricTon", name |-> <<"M", "e", "t", "r", "i", "c", " ", "T", "o", "n", "s">>,
              symbol |-> <<"t">>,
              toBase |-> <<"mul", FromInt(1000)>>, fromBase |-> <<"div", FromInt(1000)>>]],
    [key |-> "ounce",
     val |-> [id |-> "ounce", name |-> <<"O", "u", "n", "c", "e", "s">>,
              symbol |-> <<"o", "z">>,
              toBase |-> <<"mul", Dec(283495, 7)>>, fromBase |-> <<"div", Dec(283495, 7)>>]],
    [key |-> "pound",
     val |-> [id |-> "pound", name |-> <<"P", "o", "u", "n", "d", "s">>,
              symbol |-> <<"l", "b">>,
              toBase |-> <<"mul", Dec(453592, 6)>>, fromBase |-> <<"div", Dec(453592, 6)>>]],
    [key |-> "usTon",
     val |-> [id |-> "usTon", name |-> <<"U", "S", " ", "T", "o", "n", "s">>,
              symbol |-> <<"t", "o", "n">>,
              toBase |-> <<"mul", Dec(907185, 3)>>, fromBase |-> <<"div", Dec(907185, 3)>>]],
    [key |-> "stone",
     val |-> [id |-> "stone", name |-> <<"S", "t", "o", "n", "e">>,
              symbol |-> <<"s", "t">>,
              toBase |-> <<"mul", Dec(635029, 5)>>, fromBase |-> <<"div", Dec(635029, 5)>>]] >>

temperatureUnitsTable == <<
    [key |-> "celsius",
     val |-> [id |-> "celsius", name |-> <<"C", "e", "l", "s", "i", "u", "s">>,
              symbol |-> <<"U+00B0", "C">>]],
    [key |-> "fahrenheit",
     val |-> [id |-> "fahrenheit", name |-> <<"F", "a", "h", "r", "e", "n", "h", "e", "i", "t">>,
              symbol |-> <<"U+00B0", "F">>]],
    [key |-> "kelvin",
     val |-> [id |-> "kelvin", name |-> <<"K", "e", "l", "v", "i", "n">>,
              symbol |-> <<"K">>]] >>

VARIABLES
    volumeUnits,        \* the module-level unit tables
    lengthUnits,
    weightUnits,
    temperatureUnits,
    zone,               \* the time zone the process runs in
    pc,                 \* "idle", or "returned" after a call
    call,               \* the last call: [fn, value, unit, name]
    ret,                \* its outcome: [threw, val, err]
    browser,            \* localStorage and the console: [mode, storage, console]
    hook,               \* the preferences hook: [mounted, preferences, isLoaded, queue, error]
    dialog,             \* the preferences dialog: [open, localPreferences]
    form                \* a unit converter form

tables == <<volumeUnits, lengthUnits, weightUnits, temperatureUnits>>
env == <<volumeUnits, lengthUnits, weightUnits, temperatureUnits, zone, browser, hook, dialog, form>>
vars == <<volumeUnits, lengthUnits, weightUnits, temperatureUnits, zone, pc, call, ret, browser, hook, dialog, form>>

\* division carried out as a multiplication
ApplyMultiplying(fn, value) ==
    IF fn[1] = "mul" \/ fn[1] = "div" THEN DMul(value, fn[2]) ELSE value

\* a unit's conversion closure applied to a value
Apply(fn, value) ==
    IF fn[1] = "mul" THEN DMul(value, fn[2])
    ELSE IF fn[1] = "div" THEN DDiv(value, fn[2])
    ELSE value

(***************************************************************************)
(* Property access obj[key]: an own property, else a property inherited    *)
(* from Object.prototype, else undefined.                                  *)
(***************************************************************************)
ObjectPrototypeKeys ==
    {"constructor", "toString", "toLocaleString", "valueOf", "hasOwnProperty",
     "isPrototypeOf", "propertyIsEnumerable", "__proto__", "__defineGetter__",
     "__defineSetter__", "__lookupGetter__", "__lookupSetter__"}

Undefined == [type |-> "undefined"]
Inherited(key) == [type |-> "inherited", key |-> key]
Own(unit) == [type |-> "unit", unit |-> unit]
Str(s) == [type |-> "string", value |-> s]

HasOwn(obj, key) == \E i \in 1..Len(obj) : obj[i].key = key

Get(obj, key) ==
    IF HasOwn(obj, key)
    THEN Own(obj[CHOOSE i \in 1..Len(obj) : obj[i].key = key].val)
    ELSE IF key \in ObjectPrototypeKeys THEN Inherited(key)
    ELSE Undefined

\* !x
Falsy(x) == x.type = "undefined"

\* Object.values(obj)
ObjectValues(obj) == [i \in 1..Len(obj) |-> obj[i].val]

Returned(v) == [threw |-> FALSE, val |-> v, err |-> [name |-> "", message |-> ""]]
Thrown(name, message) == [threw |-> TRUE, val |-> <<>>, err |-> [name |-> name, message |-> message]]

\* the filter left out: the source unit stays among the results
FilterKeepingSource(seq, fromUnitId) == seq

RECURSIVE Filter(_, _)
Filter(seq, fromUnitId) ==
    IF seq = <<>> THEN <<>>
    ELSE IF seq[1].id # fromUnitId THEN <<seq[1]>> \o Filter(Tail(seq), fromUnitId)
    ELSE Filter(Tail(seq), fromUnitId)

\* the symbol copied into the name
ConversionResultNamedBySymbol(unit, baseValue) ==
    [unitId |-> unit.id, unitName |-> unit.symbol, symbol |-> unit.symbol,
     value |-> formatNumber(Apply(unit.fromBase, baseValue))]

ConversionResult(unit, baseValue) ==
    [unitId |-> unit.id, unitName |-> unit.name, symbol |-> unit.symbol,
     value |-> formatNumber(Apply(unit.fromBase, baseValue))]

\* the body shared by convertLength, convertVolume and convertWeight
convertLinear(units, value, fromUnitId) ==
    LET fromUnit == Get(units, fromUnitId)
    IN  IF Falsy(fromUnit) THEN Thrown("Error", "Invalid unit ID: " \o fromUnitId)
        ELSE IF fromUnit.type # "unit"
        THEN Thrown("TypeError", "fromUnit.toBase is not a function")
        ELSE LET others == Filter(ObjectValues(units), fromUnitId)
             IN  [baseValue \in Double |->
                      Returned([i \in 1..Len(others) |-> ConversionResult(others[i], baseValue)])
                 ][Apply(fromUnit.unit.toBase, value)]

convertVolume(value, fromUnitId) == convertLinear(volumeUnits, value, fromUnitId)

convertLength(value, fromUnitId) == convertLinear(lengthUnits, value, fromUnitId)

convertWeight(value, fromUnitId) == convertLinear(weightUnits, value, fromUnitId)

\* the factor turned over: 5/9 in place of 9/5
celsiusToFahrenheitInverted(celsius) == DAdd(DDiv(DMul(celsius, FromInt(5)), FromInt(9)), FromInt(32))

celsiusToFahrenheit(celsius) == DAdd(DDiv(DMul(celsius, FromInt(9)), FromInt(5)), FromInt(32))

celsiusToKelvin(celsius) == DAdd(celsius, Dec(27315, 2))

fahrenheitToCelsius(fahrenheit) == DDiv(DMul(DSub(fahrenheit, FromInt(32)), FromInt(5)), FromInt(9))

fahrenheitToKelvin(fahrenheit) ==
    DAdd(DDiv(DMul(DSub(fahrenheit, FromInt(32)), FromInt(5)), FromInt(9)), Dec(27315, 2))

kelvinToCelsius(kelvin) == DSub(kelvin, Dec(27315, 2))

kelvinToFahrenheit(kelvin) ==
    DAdd(DDiv(DMul(DSub(kelvin, Dec(27315, 2)), FromInt(9)), FromInt(5)), FromInt(32))

(***************************************************************************)
(* The six formulas on exact numbers: a number is the ratio n / d in       *)
(* lowest terms with d positive.                                           *)
(***************************************************************************)
RECURSIVE Gcd(_, _)
Gcd(a, b) == IF b = 0 THEN a ELSE Gcd(b, a % b)

Lowest(n, d) == [n |-> n \div Gcd(IF n < 0 THEN -n ELSE n, d), d |-> d \div Gcd(IF n < 0 THEN -n ELSE n, d)]

Ratio(n, d) == IF d < 0 THEN Lowest(-n, -d) ELSE Lowest(n, d)

ExactAdd(a, b) == Ratio(a.n * b.d + b.n * a.d, a.d * b.d)
ExactSub(a, b) == Ratio(a.n * b.d - b.n * a.d, a.d * b.d)
ExactMul(a, b) == Ratio(a.n * b.n, a.d * b.d)
ExactDiv(a, b) == Ratio(a.n * b.d, a.d * b.n)

celsiusToFahrenheitExact(celsius) ==
    ExactAdd(ExactDiv(ExactMul(celsius, Ratio(9, 1)), Ratio(5, 1)), Ratio(32, 1))

celsiusToKelvinExact(celsius) == ExactAdd(celsius, Ratio(27315, 100))

fahrenheitToCelsiusExact(fahrenheit) ==
    ExactDiv(ExactMul(ExactSub(fahrenheit, Ratio(32, 1)), Ratio(5, 1)), Ratio(9, 1))

fahrenheitToKelvinExact(fahrenheit) ==
    ExactAdd(ExactDiv(ExactMul(ExactSub(fahrenheit, Ratio(32, 1)), Ratio(5, 1)), Ratio(9, 1)),
             Ratio(27315, 100))

kelvinToCelsiusExact(kelvin) == ExactSub(kelvin, Ratio(27315, 100))

\* the Kelvin formula with the factor 5/9 of the other direction
kelvinToFahrenheitInverted(kelvin) ==
    ExactAdd(ExactDiv(ExactMul(ExactSub(kelvin, Ratio(27315, 100)), Ratio(5, 1)), Ratio(9, 1)),
             Ratio(32, 1))

kelvinToFahrenheitExact(kelvin) ==
    ExactAdd(ExactDiv(ExactMul(ExactSub(kelvin, Ratio(27315, 100)), Ratio(9, 1)), Ratio(5, 1)),
             Ratio(32, 1))

\* the formulas and their compositions applied to the number n / 10^d, on
\* exact numbers and on doubles
TemperatureFormulas(n, d) ==
    [exact |->
        [x |-> Ratio(n, 10^d),
         cToF |-> celsiusToFahrenheitExact(Ratio(n, 10^d)),
         cToK |-> celsiusToKelvinExact(Ratio(n, 10^d)),
         fToC |-> fahrenheitToCelsiusExact(Ratio(n, 10^d)),
         kToC |-> kelvinToCelsiusExact(Ratio(n, 10^d)),
         fToCOfCToF |-> fahrenheitToCelsiusExact(celsiusToFahrenheitExact(Ratio(n, 10^d))),
         kToCOfCToK |-> kelvinToCelsiusExact(celsiusToKelvinExact(Ratio(n, 10^d))),
         fToK |-> fahrenheitToKelvinExact(Ratio(n, 10^d)),
         cToKOfFToC |-> celsiusToKelvinExact(fahrenheitToCelsiusExact(Ratio(n, 10^d))),
         kToF |-> kelvinToFahrenheitExact(Ratio(n, 10^d)),
         cToFOfKToC |-> celsiusToFahrenheitExact(kelvinToCelsiusExact(Ratio(n, 10^d)))],
     double |->
        [x |-> Dec(n, d),
         fToCOfCToF |-> fahrenheitToCelsius(celsiusToFahrenheit(Dec(n, d))),
         kToCOfCToK |-> kelvinToCelsius(celsiusToKelvin(Dec(n, d))),
         fToK |-> fahrenheitToKelvin(Dec(n, d)),
         cToKOfFToC |-> celsiusToKelvin(fahrenheitToCelsius(Dec(n, d))),
         kToF |-> kelvinToFahrenheit(Dec(n, d)),
         cToFOfKToC |-> celsiusToFahrenheit(kelvinToCelsius(Dec(n, d)))]]

TempResult(unitId, unitName, symbol, v) ==
    [unitId |-> unitId, unitName |-> unitName, symbol |-> symbol, value |-> formatNumber(v)]

convertTemperature(value, fromUnitId) ==
    LET fromUnit == Get(temperatureUnits, fromUnitId)
    IN  IF Falsy(fromUnit) THEN Thrown("Error", "Invalid unit ID: " \o fromUnitId)
        ELSE IF fromUnitId = "celsius"
        THEN Returned(<<TempResult("fahrenheit", <<"F", "a", "h", "r", "e", "n", "h", "e", "i", "t">>, <<"U+00B0", "F">>, celsiusToFahrenheit(value)),
                        TempResult("kelvin", <<"K", "e", "l", "v", "i", "n">>, <<"K">>, celsiusToKelvin(value))>>)
        ELSE IF fromUnitId = "fahrenheit"
        THEN Returned(<<TempResult("celsius", <<"C", "e", "l", "s", "i", "u", "s">>, <<"U+00B0", "C">>, fahrenheitToCelsius(value)),
                        TempResult("kelvin", <<"K", "e", "l", "v", "i", "n">>, <<"K">>, fahrenheitToKelvin(value))>>)
        ELSE IF fromUnitId = "kelvin"
        THEN Returned(<<TempResult("celsius", <<"C", "e", "l", "s", "i", "u", "s">>, <<"U+00B0", "C">>, kelvinToCelsius(value)),
                        TempResult("fahrenheit", <<"F", "a", "h", "r", "e", "n", "h", "e", "i", "t">>, <<"U+00B0", "F">>, kelvinToFahrenheit(value))>>)
        ELSE Thrown("Error", "Unsupported temperature unit: " \o fromUnitId)

\* Object.values(units).map((unit) => unit.name)
UnitNames(units) == [i \in 1..Len(units) |-> units[i].val.name]

getVolumeUnitNames == UnitNames(volumeUnits)
getLengthUnitNames == UnitNames(lengthUnits)
getWeightUnitNames == UnitNames(weightUnits)
getTemperatureUnitNames == UnitNames(temperatureUnits)

\* String.prototype.toLowerCase on ASCII text
UpperCase == <<"A", "B", "C", "D", "E", "F", "G", "H", "I", "J", "K", "L", "M",
               "N", "O", "P", "Q", "R", "S", "T", "U", "V", "W", "X", "Y", "Z">>
LowerCase == <<"a", "b", "c", "d", "e", "f", "g", "h", "i", "j", "k", "l", "m",
               "n", "o", "p", "q", "r", "s", "t", "u", "v", "w", "x", "y", "z">>

LowerChar(c) == IF \E i \in 1..26 : UpperCase[i] = c
                THEN LowerCase[CHOOSE i \in 1..26 : UpperCase[i] = c]
                ELSE c

\* the case left as it is
toLowerCaseKept(str) == str

toLowerCase(str) == [i \in 1..Len(str) |-> LowerChar(str[i])]

\* Array.prototype.find: the index of the first unit whose name matches, or 0
RECURSIVE FindName(_, _, _)
FindName(values, name, i) ==
    IF i > Len(values) THEN 0
    ELSE IF toLowerCase(values[i].name) = toLowerCase(name) THEN i
    ELSE FindName(values, name, i + 1)

\* the body shared by the four modules' getUnitIdFromName
UnitIdFromName(units, name) ==
    LET i == FindName(ObjectValues(units), name, 1)
    IN  IF i = 0 THEN Undefined ELSE Str(ObjectValues(units)[i].id)

getUnitIdFromNameVolume(name) == UnitIdFromName(volumeUnits, name)
getUnitIdFromNameLength(name) == UnitIdFromName(lengthUnits, name)
getUnitIdFromNameWeight(name) == UnitIdFromName(weightUnits, name)
getUnitIdFromNameTemperature(name) == UnitIdFromName(temperatureUnits, name)

(***************************************************************************)
(* Date: a time value is an integral number of milliseconds since the      *)
(* epoch, or NaN.  Days and the time within a day fit 32-bit integers;     *)
(* the time value itself is a binary64 number.                             *)
(***************************************************************************)
msPerDay == 86400000
msPerMinute == 60000

\* 8.64e15, the largest time value
MaxTimeValue == DMul(FromInt(864000000), FromInt(10000000))

\* |x| truncated to an integer, for finite x
BTrunc(x) == IF x.e >= 0 THEN BShl(x.m, x.e) ELSE BShr(x.m, -x.e)

\* TimeClip
TimeClip(time) ==
    IF ~IsFinite(time) THEN NaN
    ELSE IF DLt(MaxTimeValue, MathAbs(time)) THEN NaN
    ELSE LET Clip(n) == IF n = <<>> THEN Zero(0) ELSE DRound(time.s, n, 0)
         IN  Clip(BTrunc(time))

\* Day(t) and TimeWithinDay(t) of a valid time value, as <<day, ms>>
DayTime(t) ==
    LET Signed(q, r) == IF t.s = 0 \/ IsZero(t) THEN <<q, r>>
                        ELSE IF r = 0 THEN <<-q, 0>>
                        ELSE <<-q - 1, msPerDay - r>>
        Split(qr) == Signed(BToNat(qr[1]), BToNat(qr[2]))
    IN  Split(BDivMod(BTrunc(t), BFromNat(msPerDay)))

\* <<day, ms>> with ms brought into 0 .. msPerDay - 1
NormDayTime(day, ms) ==
    LET d == IF ms >= 0 THEN ms \div msPerDay ELSE -((-ms + msPerDay - 1) \div msPerDay)
    IN  <<day + d, ms - d * msPerDay>>

\* MakeDate: the time value of <<day, ms>>
MakeDate(dt) ==
    [d \in Int \X Int |-> TimeClip(DAdd(DMul(FromInt(d[1]), FromInt(msPerDay)), FromInt(d[2])))
    ][dt]

FloorDiv(a, b) == IF a >= 0 THEN a \div b ELSE -((-a + b - 1) \div b)

\* MakeDay: the day number of a proleptic Gregorian date (month 1..12)
DaysFromCivil(y, m, d) ==
    LET y1  == IF m <= 2 THEN y - 1 ELSE y
        era == FloorDiv(y1, 400)
        yoe == y1 - era * 400
        mp  == IF m > 2 THEN m - 3 ELSE m + 9
        doy == (153 * mp + 2) \div 5 + d - 1
        doe == yoe * 365 + yoe \div 4 - yoe \div 100 + doy
    IN  era * 146097 + doe - 719468

\* YearFromTime, MonthFromTime + 1, DateFromTime of a day number
CivilFromDays(z) ==
    LET Date(era, yoe, doy, mp) ==
            [year  |-> yoe + era * 400 + (IF mp < 10 THEN 0 ELSE 1),
             month |-> IF mp < 10 THEN mp + 3 ELSE mp - 9,
             day   |-> doy - (153 * mp + 2) \div 5 + 1]
        InYear(era, yoe, doy) == Date(era, yoe, doy, (5 * doy + 2) \div 153)
        InEra(era, doe, yoe) == InYear(era, yoe, doe - (365 * yoe + yoe \div 4 - yoe \div 100))
        Era(era, doe) ==
            InEra(era, doe, (doe - doe \div 1460 + doe \div 36524 - doe \div 146096) \div 365)
        Shift(z1) == Era(FloorDiv(z1, 146097), z1 - FloorDiv(z1, 146097) * 146097)
    IN  Shift(z + 719468)

\* WeekDay: 0 is Sunday
WeekDay(day) == (((day + 4) % 7) + 7) % 7

IsLeap(y) == (y % 4 = 0 /\ y % 100 # 0) \/ y % 400 = 0

DaysInMonth(y, m) ==
    IF m = 2 THEN (IF IsLeap(y) THEN 29 ELSE 28)
    ELSE IF m \in {4, 6, 9, 11} THEN 30 ELSE 31

(***************************************************************************)
(* The time zone of the process.  std and dst are the minutes ahead of     *)
(* UTC outside and during daylight saving time; rule "US" is second Sunday *)
(* of March 02:00 to first Sunday of November 02:00 local time, rule       *)
(* "none" is a constant offset.  Before the UTC instant since the zone     *)
(* kept local mean time, lmt minutes ahead of UTC (to the minute).  The    *)
(* rules a zone went through in between are left out: the instants passed  *)
(* are of years in which the rule above gives the zone's offset.           *)
(***************************************************************************)
Zones ==
    { [id |-> "UTC", std |-> 0, dst |-> 0, rule |-> "none",
       stdName |-> <<"U", "T", "C">>, dstName |-> <<"U", "T", "C">>,
       lmt |-> 0, lmtName |-> <<"U", "T", "C">>, since |-> <<DaysFromCivil(1883, 11, 18), 0>>],
      [id |-> "Asia/Kolkata", std |-> 330, dst |-> 330, rule |-> "none",
       stdName |-> <<"G", "M", "T", "+", "5", ":", "3", "0">>, dstName |-> <<"G", "M", "T", "+", "5", ":", "3", "0">>,
       lmt |-> 353, lmtName |-> <<"G", "M", "T", "+", "5", ":", "5", "3", ":", "2", "8">>,
       since |-> <<DaysFromCivil(1905, 12, 31), 66600000>>],
      [id |-> "America/New_York", std |-> -300, dst |-> -240, rule |-> "US",
       stdName |-> <<"E", "S", "T">>, dstName |-> <<"E", "D", "T">>,
       lmt |-> -296, lmtName |-> <<"G", "M", "T", "-", "4", ":", "5", "6", ":", "0", "2">>,
       since |-> <<DaysFromCivil(1883, 11, 18), 61200000>>] }

\* the first Sunday on or after a day
SundayFrom(day) == day + ((7 - WeekDay(day)) % 7)

DayTimeLe(a, b) == a[1] < b[1] \/ (a[1] = b[1] /\ a[2] <= b[2])
DayTimeLt(a, b) == a[1] < b[1] \/ (a[1] = b[1] /\ a[2] < b[2])

\* daylight saving time is in force at the UTC instant dt = <<day, ms>>
InDST(z, dt) ==
    IF z.rule = "none" \/ DayTimeLt(dt, z.since) THEN FALSE
    ELSE LET InYear(y) ==
                 /\ DayTimeLe(NormDayTime(SundayFrom(DaysFromCivil(y, 3, 1)) + 7,
                                          2 * 3600000 - z.std * msPerMinute), dt)
                 /\ DayTimeLt(dt, NormDayTime(SundayFrom(DaysFromCivil(y, 11, 1)),
                                              2 * 3600000 - z.dst * msPerMinute))
         IN  InYear(CivilFromDays(dt[1]).year)

\* minutes ahead of UTC at the UTC instant dt
OffsetAt(z, dt) ==
    IF DayTimeLt(dt, z.since) THEN z.lmt
    ELSE IF InDST(z, dt) THEN z.dst ELSE z.std

\* LocalTime: the local <<day, ms>> of the UTC instant dt
LocalDayTime(z, dt) == NormDayTime(dt[1], dt[2] + OffsetAt(z, dt) * msPerMinute)

\* UTC(t): the UTC instant of a local <<day, ms>>; a local time that is
\* skipped or repeated takes the offset in force before the transition
UTCDayTime(z, lt) ==
    LET Pick(viaLmt, viaStd, viaDst) ==
            IF DayTimeLt(viaLmt, z.since) THEN viaLmt
            ELSE IF InDST(z, viaDst) THEN viaDst ELSE viaStd
    IN  Pick(NormDayTime(lt[1], lt[2] - z.lmt * msPerMinute),
             NormDayTime(lt[1], lt[2] - z.std * msPerMinute),
             NormDayTime(lt[1], lt[2] - z.dst * msPerMinute))

\* Date.prototype.getTimezoneOffset
getTimezoneOffset(z, t) ==
    IF IsNaN(t) THEN NaN
    ELSE [dt \in Int \X Int |-> FromInt(-OffsetAt(z, dt))][DayTime(t)]

\* Math.max of two numbers
MathMax(a, b) == IF IsNaN(a) \/ IsNaN(b) THEN NaN ELSE IF DLt(a, b) THEN b ELSE a

\* Date.prototype.getFullYear
getFullYear(z, t) == [dt \in Int \X Int |-> CivilFromDays(LocalDayTime(z, dt)[1]).year][DayTime(t)]

\* new Date(year, monthIndex, 1): local midnight; years 0..99 mean 1900..1999
NewDateYM(z, year, monthIndex) ==
    [y \in Int |-> MakeDate(UTCDayTime(z, <<DaysFromCivil(y, monthIndex + 1, 1), 0>>))
    ][IF 0 <= year /\ year <= 99 THEN 1900 + year ELSE year]

\* String(n) for an integer n
IntChars(n) == IF n < 0 THEN <<"-">> \o NatChars(-n) ELSE NatChars(n)

\* String.prototype.padStart(n, '0')
padStart(str, n) == PadLeft(str, n)

formatLocalDatetime(z, t) ==
    LET Text(c, secs) ==
            IntChars(c.year) \o <<"-">> \o padStart(IntChars(c.month), 2) \o <<"-">>
              \o padStart(IntChars(c.day), 2) \o <<"T">>
              \o padStart(IntChars(secs \div 3600), 2) \o <<":">>
              \o padStart(IntChars((secs \div 60) % 60), 2) \o <<":">>
              \o padStart(IntChars(secs % 60), 2)
    IN  [dt \in Int \X Int |->
             [lt \in Int \X Int |-> Text(CivilFromDays(lt[1]), lt[2] \div 1000)
             ][LocalDayTime(z, dt)]
        ][DayTime(t)]

\* Date.prototype.toISOString of a valid time value
toISOString(t) ==
    LET Year(y) == IF 0 <= y /\ y <= 9999 THEN PadLeft(NatChars(y), 4)
                   ELSE IF y < 0 THEN <<"-">> \o PadLeft(NatChars(-y), 6)
                   ELSE <<"+">> \o PadLeft(NatChars(y), 6)
        Text(c, secs, ms) ==
            Year(c.year) \o <<"-">> \o PadLeft(NatChars(c.month), 2) \o <<"-">>
              \o PadLeft(NatChars(c.day), 2) \o <<"T">>
              \o PadLeft(NatChars(secs \div 3600), 2) \o <<":">>
              \o PadLeft(NatChars((secs \div 60) % 60), 2) \o <<":">>
              \o PadLeft(NatChars(secs % 60), 2) \o <<".">>
              \o PadLeft(NatChars(ms), 3) \o <<"Z">>
    IN  [dt \in Int \X Int |-> Text(CivilFromDays(dt[1]), dt[2] \div 1000, dt[2] % 1000)
        ][DayTime(t)]

getTimezoneInfo(z, t) ==
    [year \in Int |->
        [january \in Double |->
            [july \in Double |->
                [stdOffset \in Double |->
                    [timezone |-> IF DayTimeLt(DayTime(t), z.since) THEN z.lmtName
                                  ELSE IF InDST(z, DayTime(t)) THEN z.dstName ELSE z.stdName,
                     isDST |-> DLt(getTimezoneOffset(z, t), stdOffset)]
                ][MathMax(getTimezoneOffset(z, january), getTimezoneOffset(z, july))]
            ][NewDateYM(z, year, 6)]
        ][NewDateYM(z, year, 0)]
    ][getFullYear(z, t)]

\* the date formatted for display, which never throws, in place of toISOString
convertDateLenient(z, t) ==
    IF IsNaN(t)
    THEN Returned([unixSeconds |-> NaN, unixMilliseconds |-> NaN,
                   localDatetime |-> <<"N", "a", "N", "-", "N", "a", "N", "-", "N", "a", "N", "T",
                                       "N", "a", "N", ":", "N", "a", "N", ":", "N", "a", "N">>,
                   utcDatetime |-> <<"I", "n", "v", "a", "l", "i", "d", " ", "D", "a", "t", "e">>,
                   timezone |-> <<"U", "n", "k", "n", "o", "w", "n">>, isDST |-> FALSE])
    ELSE LET Result(info) ==
                 Returned([unixSeconds |-> MathFloor(DDiv(t, FromInt(1000))),
                           unixMilliseconds |-> t,
                           localDatetime |-> formatLocalDatetime(z, t),
                           utcDatetime |-> toISOString(t),
                           timezone |-> info.timezone,
                           isDST |-> info.isDST])
         IN  Result(getTimezoneInfo(z, t))

\* the body of convertDate, which getCurrentTime repeats
convertDate(z, t) ==
    IF IsNaN(t) THEN Thrown("RangeError", "Invalid time value")
    ELSE LET unixMilliseconds == t
             unixSeconds      == MathFloor(DDiv(unixMilliseconds, FromInt(1000)))
             Result(info) ==
                 Returned([unixSeconds |-> unixSeconds,
                           unixMilliseconds |-> unixMilliseconds,
                           localDatetime |-> formatLocalDatetime(z, t),
                           utcDatetime |-> toISOString(t),
                           timezone |-> info.timezone,
                           isDST |-> info.isDST])
         IN  Result(getTimezoneInfo(z, t))

(***************************************************************************)
(* Date.parse of the ISO forms YYYY-MM-DD (UTC) and                         *)
(* YYYY-MM-DDTHH:mm[:ss[.sss]][Z] (local time without Z); other text is    *)
(* not a date.                                                             *)
(***************************************************************************)
Digits == {"0", "1", "2", "3", "4", "5", "6", "7", "8", "9"}

AllDigits(str) == \A i \in 1..Len(str) : str[i] \in Digits

DigitVal(c) == CHOOSE d \in 0..9 : DigitChar(d) = c

RECURSIVE NumVal(_)
NumVal(str) == IF str = <<>> THEN 0
               ELSE 10 * NumVal(SubSeq(str, 1, Len(str) - 1)) + DigitVal(str[Len(str)])

\* [ok, s, ms, utc] of the text after HH:mm
ParseTail(r) ==
    LET bad == [ok |-> FALSE, s |-> 0, ms |-> 0, utc |-> FALSE]
        z   == Len(r) > 0 /\ r[Len(r)] = "Z"
        b   == IF z THEN SubSeq(r, 1, Len(r) - 1) ELSE r
    IN  IF b = <<>> THEN [ok |-> TRUE, s |-> 0, ms |-> 0, utc |-> z]
        ELSE IF Len(b) = 3 /\ b[1] = ":" /\ AllDigits(SubSeq(b, 2, 3))
        THEN [ok |-> TRUE, s |-> NumVal(SubSeq(b, 2, 3)), ms |-> 0, utc |-> z]
        ELSE IF Len(b) = 7 /\ b[1] = ":" /\ AllDigits(SubSeq(b, 2, 3)) /\ b[4] = "."
                /\ AllDigits(SubSeq(b, 5, 7))
        THEN [ok |-> TRUE, s |-> NumVal(SubSeq(b, 2, 3)), ms |-> NumVal(SubSeq(b, 5, 7)), utc |-> z]
        ELSE bad

DateParse(z, str) ==
    IF ~(Len(str) >= 10 /\ AllDigits(SubSeq(str, 1, 4)) /\ str[5] = "-"
          /\ AllDigits(SubSeq(str, 6, 7)) /\ str[8] = "-" /\ AllDigits(SubSeq(str, 9, 10)))
    THEN NaN
    ELSE LET y  == NumVal(SubSeq(str, 1, 4))
             mo == NumVal(SubSeq(str, 6, 7))
             d  == NumVal(SubSeq(str, 9, 10))
         IN  IF ~(1 <= mo /\ mo <= 12 /\ 1 <= d /\ d <= DaysInMonth(y, mo)) THEN NaN
             ELSE IF Len(str) = 10 THEN MakeDate(<<DaysFromCivil(y, mo, d), 0>>)
             ELSE IF ~(Len(str) >= 16 /\ str[11] = "T" /\ AllDigits(SubSeq(str, 12, 13))
                        /\ str[14] = ":" /\ AllDigits(SubSeq(str, 15, 16)))
             THEN NaN
             ELSE LET Time(h, mi, t, day) ==
                          IF ~t.ok \/ h > 24 \/ mi > 59 \/ t.s > 59
                             \/ (h = 24 /\ (mi # 0 \/ t.s # 0 \/ t.ms # 0))
                          THEN NaN
                          ELSE IF t.utc
                          THEN MakeDate(NormDayTime(day, ((h * 60 + mi) * 60 + t.s) * 1000 + t.ms))
                          ELSE MakeDate(UTCDayTime(z, NormDayTime(day, ((h * 60 + mi) * 60 + t.s) * 1000 + t.ms)))
                  IN  Time(NumVal(SubSeq(str, 12, 13)), NumVal(SubSeq(str, 15, 16)),
                           ParseTail(SubSeq(str, 17, Len(str))), DaysFromCivil(y, mo, d))

\* new Date(value) for a number
NewDateNumber(value) == TimeClip(value)

getCurrentTime(z, now) == convertDate(z, now)

\* the seconds taken for milliseconds
fromUnixSecondsUnscaled(z, seconds) ==
    [date \in Double |-> convertDate(z, date)][NewDateNumber(seconds)]

fromUnixSeconds(z, seconds) ==
    [date \in Double |-> convertDate(z, date)][NewDateNumber(DMul(seconds, FromInt(1000)))]

fromUnixMilliseconds(z, milliseconds) ==
    [date \in Double |-> convertDate(z, date)][NewDateNumber(milliseconds)]

fromLocalDatetime(z, datetimeString) ==
    [date \in Double |-> convertDate(z, date)][DateParse(z, datetimeString)]

fromUTCDatetime(z, datetimeString) ==
    [date \in Double |-> convertDate(z, date)][DateParse(z, datetimeString)]

(***************************************************************************)
(* Strings to numbers: Number(text) (StringToNumber) and parseFloat(text). *)
(***************************************************************************)
WhiteSpace == {" ", "\t", "\n"}

RECURSIVE TrimLeft(_)
TrimLeft(str) == IF str # <<>> /\ str[1] \in WhiteSpace THEN TrimLeft(Tail(str)) ELSE str

RECURSIVE TrimRight(_)
TrimRight(str) ==
    IF str # <<>> /\ str[Len(str)] \in WhiteSpace THEN TrimRight(SubSeq(str, 1, Len(str) - 1))
    ELSE str

\* the character at position i, "" outside the string
CharAt(str, i) == IF 1 <= i /\ i <= Len(str) THEN str[i] ELSE ""

\* the first position from i on that holds no decimal digit
DigitsEnd(str, i) ==
    IF i > Len(str) THEN i
    ELSE CHOOSE j \in i..(Len(str) + 1) :
             /\ CharAt(str, j) \notin Digits
             /\ \A k \in i..(j - 1) : str[k] \in Digits

\* the number of a digit string of any length, four digits a step
RECURSIVE BFromDigits(_, _)
BFromDigits(ds, acc) ==
    IF ds = <<>> THEN acc
    ELSE [a \in BigNat |-> BFromDigits(SubSeq(ds, Min(4, Len(ds)) + 1, Len(ds)), a)
         ][BAdd(BMulSmall(acc, 10^Min(4, Len(ds))), BFromNat(NumVal(SubSeq(ds, 1, Min(4, Len(ds))))))]

RECURSIVE BPow10(_)
BPow10(k) == IF k = 0 THEN <<1>> ELSE BMulSmall(BPow10(k - 1), 10)

\* the double nearest to (-1)^s * A / B for A # 0 and B # 0
DRatio(s, A, B) ==
    [sh \in Nat |->
        [qr \in BigNat \X BigNat |->
            DRound(s, BAdd(BMulSmall(qr[1], 2), IF qr[2] = <<>> THEN <<>> ELSE <<1>>), -sh - 1)
        ][BDivMod(BShl(A, sh), B)]
    ][Max(0, 56 + BBitLen(B) - BBitLen(A))]

\* the double nearest to (-1)^s * ds * 10^e10 for a digit string ds
DecimalValue(s, ds, e10) ==
    [M \in BigNat |->
        IF M = <<>> THEN Zero(s)
        ELSE IF e10 + Len(ds) > 330 THEN Inf(s)
        ELSE IF e10 + Len(ds) < -330 THEN Zero(s)
        ELSE IF e10 >= 0 THEN DRound(s, BMul(M, BPow10(e10)), 0)
        ELSE DRatio(s, M, BPow10(-e10))
    ][BFromDigits(ds, <<>>)]

\* the exponent digits as a number, for at most four of them
ExponentVal(ds) == IF Len(ds) > 4 THEN 9999 ELSE NumVal(ds)

\* the longest prefix of str that is a StrDecimalLiteral: [ok, end, v] with
\* end the position after it and v its value
DecimalPrefix(str) ==
    LET s == IF CharAt(str, 1) = "-" THEN 1 ELSE 0
        Value(p, i1, f1, x0, x1) ==
            IF ~(i1 > p \/ f1 > i1 + 1) THEN [ok |-> FALSE, end |-> 1, v |-> NaN]
            ELSE IF x1 > x0
            THEN [ok |-> TRUE, end |-> x1,
                  v |-> DecimalValue(s, SubSeq(str, p, i1 - 1) \o SubSeq(str, i1 + 1, f1 - 1),
                                     (IF CharAt(str, x0 - 1) = "-" THEN -1 ELSE 1)
                                       * ExponentVal(SubSeq(str, x0, x1 - 1))
                                       - Max(0, f1 - i1 - 1))]
            ELSE [ok |-> TRUE, end |-> f1,
                  v |-> DecimalValue(s, SubSeq(str, p, i1 - 1) \o SubSeq(str, i1 + 1, f1 - 1),
                                     -Max(0, f1 - i1 - 1))]
        Exponent(p, i1, f1, x0) == Value(p, i1, f1, x0, DigitsEnd(str, x0))
        Fraction(p, i1, f1) ==
            Exponent(p, i1, f1,
                     IF CharAt(str, f1) \notin {"e", "E"} THEN Len(str) + 2
                     ELSE IF CharAt(str, f1 + 1) \in {"+", "-"} THEN f1 + 2
                     ELSE f1 + 1)
        Integer(p, i1) == Fraction(p, i1, IF CharAt(str, i1) = "." THEN DigitsEnd(str, i1 + 1) ELSE i1)
        Signed(p) ==
            IF Len(str) >= p + 7 /\ SubSeq(str, p, p + 7) = <<"I", "n", "f", "i", "n", "i", "t", "y">>
            THEN [ok |-> TRUE, end |-> p + 8, v |-> Inf(s)]
            ELSE Integer(p, DigitsEnd(str, p))
    IN  Signed(IF CharAt(str, 1) \in {"+", "-"} THEN 2 ELSE 1)

\* the digits of the radixes 2, 8 and 16
RadixDigits == <<"0", "1", "2", "3", "4", "5", "6", "7", "8", "9", "a", "b", "c", "d", "e", "f">>

RadixOf(str) ==
    IF Len(str) < 3 \/ str[1] # "0" THEN 0
    ELSE IF LowerChar(str[2]) = "x" THEN 16
    ELSE IF LowerChar(str[2]) = "o" THEN 8
    ELSE IF LowerChar(str[2]) = "b" THEN 2
    ELSE 0

IsRadixDigit(c, radix) == \E d \in 1..radix : RadixDigits[d] = LowerChar(c)

RECURSIVE BFromRadix(_, _, _)
BFromRadix(ds, radix, acc) ==
    IF ds = <<>> THEN acc
    ELSE [a \in BigNat |-> BFromRadix(Tail(ds), radix, a)
         ][BAdd(BMulSmall(acc, radix),
                BFromNat((CHOOSE d \in 1..radix : RadixDigits[d] = LowerChar(ds[1])) - 1))]

\* StringToNumber of the text between white space
StringNumericLiteral(t) ==
    IF t = <<>> THEN Zero(0)
    ELSE IF RadixOf(t) # 0
    THEN (IF \A i \in 3..Len(t) : IsRadixDigit(t[i], RadixOf(t))
          THEN DRound(0, BFromRadix(SubSeq(t, 3, Len(t)), RadixOf(t), <<>>), 0)
          ELSE NaN)
    ELSE [r \in [ok : BOOLEAN, end : Nat, v : Double] |->
             IF r.ok /\ r.end = Len(t) + 1 THEN r.v ELSE NaN
         ][DecimalPrefix(t)]

\* Number(value) for a string
Number(value) == StringNumericLiteral(TrimRight(TrimLeft(value)))

\* parseFloat(string)
parseFloat(string) ==
    [r \in [ok : BOOLEAN, end : Nat, v : Double] |-> IF r.ok THEN r.v ELSE NaN
    ][DecimalPrefix(TrimLeft(string))]

(***************************************************************************)
(* The validators of the time engine and the time form.                    *)
(***************************************************************************)
\* 4102444800, the first second of the year 2100
MaxUnixSeconds == DMul(FromInt(41024448), FromInt(100))

\* 4102444800000
MaxUnixMilliseconds == DMul(MaxUnixSeconds, FromInt(1000))

isValidUnixSeconds(value) ==
    [num \in Double |->
        IF IsNaN(num) \/ ~IsFinite(num) THEN FALSE
        ELSE DLe(Zero(0), num) /\ DLe(num, MaxUnixSeconds)
    ][Number(value)]

isValidUnixMilliseconds(value) ==
    [num \in Double |->
        IF IsNaN(num) \/ ~IsFinite(num) THEN FALSE
        ELSE DLe(Zero(0), num) /\ DLe(num, MaxUnixMilliseconds)
    ][Number(value)]

isValidDatetime(z, value) == ~IsNaN(DateParse(z, value))

TimeUnit == {"unix-seconds", "unix-milliseconds", "local-datetime", "utc-datetime"}

\* the message of the schema of a unit type for a value, "" when it passes
createFormSchema(z, unitType, value) ==
    IF unitType = "unix-seconds"
    THEN (IF Len(value) < 1 THEN "Please enter a value"
          ELSE IF ~isValidUnixSeconds(value) THEN "Please enter a valid Unix timestamp in seconds"
          ELSE "")
    ELSE IF unitType = "unix-milliseconds"
    THEN (IF Len(value) < 1 THEN "Please enter a value"
          ELSE IF ~isValidUnixMilliseconds(value)
          THEN "Please enter a valid Unix timestamp in milliseconds"
          ELSE "")
    ELSE (IF Len(value) < 1 THEN "Please select a date and time"
          ELSE IF ~isValidDatetime(z, value) THEN "Please enter a valid date and time"
          ELSE "")

\* what the time form holds after a submission
FormState(converted, results, error) == [converted |-> converted, results |-> results, error |-> error]

handleConvert(z, fromUnit, value) ==
    LET Caught(r) == IF r.threw THEN FormState(FALSE, <<>>, "Failed to convert. Please check your input.")
                     ELSE FormState(TRUE, r.val, "")
    IN  Caught(IF fromUnit = "unix-seconds" THEN fromUnixSeconds(z, parseFloat(value))
               ELSE IF fromUnit = "unix-milliseconds" THEN fromUnixMilliseconds(z, parseFloat(value))
               ELSE IF fromUnit = "local-datetime" THEN fromLocalDatetime(z, value)
               ELSE fromUTCDatetime(z, value))

\* form.handleSubmit(handleConvert): the handler runs when the schema passes
handleSubmit(z, unitType, value) ==
    IF createFormSchema(z, unitType, value) # ""
    THEN FormState(FALSE, <<>>, createFormSchema(z, unitType, value))
    ELSE handleConvert(z, unitType, value)

MonthShort ==
    <<<<"J", "a", "n">>, <<"F", "e", "b">>, <<"M", "a", "r">>, <<"A", "p", "r">>,
      <<"M", "a", "y">>, <<"J", "u", "n">>, <<"J", "u", "l">>, <<"A", "u", "g">>,
      <<"S", "e", "p">>, <<"O", "c", "t">>, <<"N", "o", "v">>, <<"D", "e", "c">>>>

\* Intl.DateTimeFormat('en-US', {year: 'numeric', month: 'short', day: 'numeric',
\* hour: '2-digit', minute: '2-digit', second: '2-digit', hour12: false}) of a
\* local <<day, ms>>; midnight is the hour the implementation prints at 00:xx
IntlFormat(lt, midnight) ==
    LET Text(c, secs) ==
            MonthShort[c.month] \o <<" ">> \o IntChars(c.day) \o <<",", " ">> \o IntChars(c.year)
              \o <<",", " ">>
              \o (IF secs \div 3600 = 0 THEN midnight ELSE padStart(IntChars(secs \div 3600), 2))
              \o <<":">> \o padStart(IntChars((secs \div 60) % 60), 2)
              \o <<":">> \o padStart(IntChars(secs % 60), 2)
    IN  Text(CivilFromDays(lt[1]), lt[2] \div 1000)

formatLocalDatetimeDisplay(z, datetime, timezone, isDST, midnight) ==
    [date \in Double |->
        IF IsNaN(date) THEN Thrown("RangeError", "Invalid time value")
        ELSE Returned(IntlFormat(LocalDayTime(z, DayTime(date)), midnight) \o <<" ">> \o timezone
                        \o (IF isDST THEN <<" ", "(", "D", "S", "T", ")">>
                            ELSE <<" ", "(", "S", "T", "D", ")">>))
    ][DateParse(z, datetime)]

(***************************************************************************)
(* The date form: the days between two dates, and a date a number of days  *)
(* from another.                                                           *)
(***************************************************************************)
\* null in place of a date or a number
Null == [k |-> "null", s |-> 0, m |-> <<>>, e |-> 0]

\* Date.prototype.getUTCDate in place of getDate
getUTCDate(z, t) == CivilFromDays(DayTime(t)[1]).day

\* Date.prototype.getDate
getDate(z, t) == [dt \in Int \X Int |-> CivilFromDays(LocalDayTime(z, dt)[1]).day][DayTime(t)]

\* ToIntegerOrInfinity of a finite x below 2^28 in size
DToInt(x) == IF x.s = 1 THEN -BToNat(BTrunc(x)) ELSE BToNat(BTrunc(x))

\* a fixed 24 hours added for every day
setDateByHours(z, t, dt) ==
    IF IsNaN(t) \/ ~IsFinite(dt) THEN NaN
    ELSE TimeClip(DAdd(t, DMul(DSub(dt, FromInt(getDate(z, t))), FromInt(msPerDay))))

\* Date.prototype.setDate: the time value of the date dt of the local month of
\* t, at the local time of day of t; a date no time value reaches is NaN
setDate(z, t, dt) ==
    IF IsNaN(t) \/ ~IsFinite(dt) THEN NaN
    ELSE IF DLe(FromInt(2^28), MathAbs(dt)) THEN NaN
    ELSE [lt \in Int \X Int |->
             [c \in [year : Int, month : Int, day : Int] |->
                 MakeDate(UTCDayTime(z, <<DaysFromCivil(c.year, c.month, 1) + DToInt(dt) - 1, lt[2]>>))
             ][CivilFromDays(lt[1])]
         ][LocalDayTime(z, DayTime(t))]

\* the quotient rounded down instead of to the nearest whole number
DateResultFlooring(z, mode, fromDate, toDate, days) ==
    IF fromDate = Null \/ IsNaN(fromDate) THEN [daysDiff |-> Null, endDate |-> Null]
    ELSE IF mode = "date"
    THEN (IF toDate # Null /\ ~IsNaN(toDate)
          THEN [daysDiff |-> MathFloor(DDiv(DSub(toDate, fromDate), FromInt(msPerDay))),
                endDate |-> Null]
          ELSE [daysDiff |-> Null, endDate |-> Null])
    ELSE [n \in Double |->
             IF ~IsNaN(n)
             THEN [daysDiff |-> n, endDate |-> setDate(z, fromDate, DAdd(FromInt(getDate(z, fromDate)), n))]
             ELSE [daysDiff |-> Null, endDate |-> Null]
         ][Number(days)]

\* the effect that computes the result of the date form
DateResult(z, mode, fromDate, toDate, days) ==
    IF fromDate = Null \/ IsNaN(fromDate) THEN [daysDiff |-> Null, endDate |-> Null]
    ELSE IF mode = "date"
    THEN (IF toDate # Null /\ ~IsNaN(toDate)
          THEN [daysDiff |-> MathRound(DDiv(DSub(toDate, fromDate), FromInt(msPerDay))),
                endDate |-> Null]
          ELSE [daysDiff |-> Null, endDate |-> Null])
    ELSE [n \in Double |->
             IF ~IsNaN(n)
             THEN [daysDiff |-> n, endDate |-> setDate(z, fromDate, DAdd(FromInt(getDate(z, fromDate)), n))]
             ELSE [daysDiff |-> Null, endDate |-> Null]
         ][Number(days)]

\* the result line of the date form: whether it is shown, the calendar date
\* of endDate, "Same day" or the signed count and its plural
DateDisplay(z, mode, result) ==
    [shown   |-> IF mode = "date" THEN result.daysDiff # Null
                 ELSE result.endDate # Null /\ result.daysDiff # Null,
     date    |-> IF mode = "date" \/ result.endDate = Null THEN <<>>
                 ELSE IF IsNaN(result.endDate) THEN <<"Invalid Date">>
                 ELSE <<CivilFromDays(LocalDayTime(z, DayTime(result.endDate))[1])>>,
     sameDay |-> result.daysDiff # Null /\ DEq(result.daysDiff, Zero(0)),
     plus    |-> result.daysDiff # Null /\ DLt(Zero(0), result.daysDiff),
     count   |-> result.daysDiff,
     plural  |-> result.daysDiff # Null /\ ~DEq(MathAbs(result.daysDiff), FromInt(1))]

(***************************************************************************)
(* The numbers form: two numbers compared, and a number changed by a       *)
(* percentage.                                                             *)
(***************************************************************************)
\* the message of a field of compareSchema and percentSchema, "" when it passes
NumberField(val, empty) ==
    IF Len(val) < 1 THEN empty
    ELSE IF IsNaN(Number(val)) THEN "Must be a number"
    ELSE ""

compareSchema(first, second) ==
    <<NumberField(first, "Enter first number"), NumberField(second, "Enter second number")>>

percentSchema(base, percent) ==
    <<NumberField(base, "Enter a number"), NumberField(percent, "Enter a percentage")>>

\* the percentage without the guard against a first number of 0
CompareUnguarded(first, second) ==
    [diff \in Double |->
        [diff |-> diff, percent |-> DMul(DDiv(diff, first), FromInt(100))]
    ][DSub(second, first)]

\* the numbers handleCompare sets from its two numbers
Compare(first, second) ==
    [diff \in Double |->
        [diff |-> diff,
         percent |-> IF ~DEq(first, Zero(0)) THEN DMul(DDiv(diff, first), FromInt(100)) ELSE Zero(0)]
    ][DSub(second, first)]

handleCompare(first, second) == Compare(parseFloat(first), parseFloat(second))

\* the percentage added as a number: base + percent / 100
PercentOfAdded(base, percent) == DAdd(base, DDiv(percent, FromInt(100)))

\* the number handlePercent sets from its two numbers
PercentOf(base, percent) == DMul(base, DAdd(FromInt(1), DDiv(percent, FromInt(100))))

handlePercent(base, percent) == PercentOf(parseFloat(base), parseFloat(percent))

\* compareForm.handleSubmit(handleCompare)
submitCompare(first, second) ==
    IF compareSchema(first, second) # <<"", "">>
    THEN [submitted |-> FALSE, errors |-> compareSchema(first, second), result |-> <<>>]
    ELSE [submitted |-> TRUE, errors |-> <<"", "">>, result |-> handleCompare(first, second)]

\* percentForm.handleSubmit(handlePercent)
submitPercent(base, percent) ==
    IF percentSchema(base, percent) # <<"", "">>
    THEN [submitted |-> FALSE, errors |-> percentSchema(base, percent), result |-> <<>>]
    ELSE [submitted |-> TRUE, errors |-> <<"", "">>, result |-> handlePercent(base, percent)]

(***************************************************************************)
(* Values of the language and JSON.  A value is [t, s, props]: t its type, *)
(* s the characters of a string or of a number, props the own properties   *)
(* of an object or array in the order the language enumerates them.  A     *)
(* JSON text is the sequence of its tokens [k, v]: punctuation, the words  *)
(* true, false and null, strings and numbers with their characters, white  *)
(* space, and anything else as a token of kind "word".                     *)
(***************************************************************************)
JsonUndefined == [t |-> "undefined", s |-> <<>>, props |-> <<>>]
JsonNull == [t |-> "null", s |-> <<>>, props |-> <<>>]
JsonTrue == [t |-> "true", s |-> <<>>, props |-> <<>>]
JsonFalse == [t |-> "false", s |-> <<>>, props |-> <<>>]
JsonString(s) == [t |-> "string", s |-> s, props |-> <<>>]
JsonNumber(s) == [t |-> "number", s |-> s, props |-> <<>>]
JsonObject(props) == [t |-> "object", s |-> <<>>, props |-> props]
JsonArray(props) == [t |-> "array", s |-> <<>>, props |-> props]

Tok(k) == [k |-> k, v |-> <<>>]
StringTok(s) == [k |-> "string", v |-> s]
NumberTok(s) == [k |-> "number", v |-> s]

\* an array index as a property key: digits without a leading zero
IsArrayIndex(key) == key # <<>> /\ AllDigits(key) /\ (key[1] # "0" \/ Len(key) = 1)

HasProperty(props, key) == \E i \in 1..Len(props) : props[i].key = key

\* CreateDataProperty: an existing key keeps its place; a new index key goes
\* among the index keys in ascending order, any other new key goes last
Put(props, key, val) ==
    IF HasProperty(props, key)
    THEN [i \in 1..Len(props) |-> IF props[i].key = key THEN [key |-> key, val |-> val] ELSE props[i]]
    ELSE IF IsArrayIndex(key)
    THEN LET before == {i \in 1..Len(props) :
                           IsArrayIndex(props[i].key) /\ NumVal(props[i].key) < NumVal(key)}
             n == Cardinality(before)
         IN  SubSeq(props, 1, n) \o <<[key |-> key, val |-> val]>> \o SubSeq(props, n + 1, Len(props))
    ELSE Append(props, [key |-> key, val |-> val])

\* obj[key] on own properties
Property(obj, key) ==
    IF HasProperty(obj.props, key)
    THEN obj.props[CHOOSE i \in 1..Len(obj.props) : obj.props[i].key = key].val
    ELSE JsonUndefined

\* the own enumerable properties a spread copies from a value
SpreadProperties(v) ==
    IF v.t \in {"object", "array"} THEN v.props
    ELSE IF v.t = "string"
    THEN [i \in 1..Len(v.s) |-> [key |-> NatChars(i - 1), val |-> JsonString(<<v.s[i]>>)]]
    ELSE <<>>

RECURSIVE PutAll(_, _)
PutAll(props, more) ==
    IF more = <<>> THEN props
    ELSE PutAll(Put(props, more[1].key, more[1].val), Tail(more))

\* { ...a, ...b }
Spread(a, b) == JsonObject(PutAll(PutAll(<<>>, SpreadProperties(a)), SpreadProperties(b)))

ParseFail == [ok |-> FALSE, end |-> 0, v |-> JsonNull]
Parsed(end, v) == [ok |-> TRUE, end |-> end, v |-> v]

KindAt(toks, i) == IF i \in 1..Len(toks) THEN toks[i].k ELSE "end"

\* JSON.parse by recursive descent on the tokens from position i
RECURSIVE ParseValue(_, _), ParseMembers(_, _, _), ParseElements(_, _, _)
RECURSIVE AfterMember(_, _, _, _), AfterElement(_, _, _)
ParseValue(toks, i) ==
    CASE KindAt(toks, i) = "string" -> Parsed(i + 1, JsonString(toks[i].v))
      [] KindAt(toks, i) = "number" -> Parsed(i + 1, JsonNumber(toks[i].v))
      [] KindAt(toks, i) = "true" -> Parsed(i + 1, JsonTrue)
      [] KindAt(toks, i) = "false" -> Parsed(i + 1, JsonFalse)
      [] KindAt(toks, i) = "null" -> Parsed(i + 1, JsonNull)
      [] KindAt(toks, i) = "{" ->
            IF KindAt(toks, i + 1) = "}" THEN Parsed(i + 2, JsonObject(<<>>))
            ELSE ParseMembers(toks, i + 1, <<>>)
      [] KindAt(toks, i) = "[" ->
            IF KindAt(toks, i + 1) = "]" THEN Parsed(i + 2, JsonArray(<<>>))
            ELSE ParseElements(toks, i + 1, <<>>)
      [] OTHER -> ParseFail

ParseMembers(toks, i, props) ==
    IF KindAt(toks, i) # "string" \/ KindAt(toks, i + 1) # ":" THEN ParseFail
    ELSE AfterMember(toks, i, props, ParseValue(toks, i + 2))

\* after the value r of the member whose name is at position i
AfterMember(toks, i, props, r) ==
    IF ~r.ok THEN ParseFail
    ELSE IF KindAt(toks, r.end) = ","
    THEN ParseMembers(toks, r.end + 1, Put(props, toks[i].v, r.v))
    ELSE IF KindAt(toks, r.end) = "}"
    THEN Parsed(r.end + 1, JsonObject(Put(props, toks[i].v, r.v)))
    ELSE ParseFail

ParseElements(toks, i, props) == AfterElement(toks, props, ParseValue(toks, i))

\* after the element r
AfterElement(toks, props, r) ==
    IF ~r.ok THEN ParseFail
    ELSE IF KindAt(toks, r.end) = ","
    THEN ParseElements(toks, r.end + 1, Append(props, [key |-> NatChars(Len(props)), val |-> r.v]))
    ELSE IF KindAt(toks, r.end) = "]"
    THEN Parsed(r.end + 1, JsonArray(Append(props, [key |-> NatChars(Len(props)), val |-> r.v])))
    ELSE ParseFail

NotSpace(tok) == tok.k # "space"

\* JSON.parse(text): the value, or a SyntaxError
ParseOutcome(toks, r) ==
    IF r.ok /\ r.end = Len(toks) + 1 THEN Returned(r.v)
    ELSE Thrown("SyntaxError", "Unexpected token")

ParseTokens(toks) == ParseOutcome(toks, ParseValue(toks, 1))

JSONParse(text) == ParseTokens(SelectSeq(text, NotSpace))

\* JSON.stringify(value): the tokens of the text; a property whose value is
\* undefined is left out
RECURSIVE JSONStringify(_), StringifyMembers(_, _), StringifyElements(_, _)
JSONStringify(v) ==
    CASE v.t = "string" -> <<StringTok(v.s)>>
      [] v.t = "number" -> <<NumberTok(v.s)>>
      [] v.t = "object" -> <<Tok("{")>> \o StringifyMembers(v.props, TRUE) \o <<Tok("}")>>
      [] v.t = "array" -> <<Tok("[")>> \o StringifyElements(v.props, TRUE) \o <<Tok("]")>>
      [] OTHER -> <<Tok(v.t)>>

StringifyMembers(props, first) ==
    IF props = <<>> THEN <<>>
    ELSE IF props[1].val.t = "undefined" THEN StringifyMembers(Tail(props), first)
    ELSE (IF first THEN <<>> ELSE <<Tok(",")>>)
           \o <<StringTok(props[1].key), Tok(":")>> \o JSONStringify(props[1].val)
           \o StringifyMembers(Tail(props), FALSE)

StringifyElements(props, first) ==
    IF props = <<>> THEN <<>>
    ELSE (IF first THEN <<>> ELSE <<Tok(",")>>)
           \o JSONStringify(IF props[1].val.t = "undefined" THEN JsonNull ELSE props[1].val)
           \o StringifyElements(Tail(props), FALSE)

(***************************************************************************)
(* The preferences hook.  browser is what the hook finds around it: the    *)
(* entry of localStorage under STORAGE_KEY ([has, text]), whether storage  *)
(* works ("ok"), is full (setItem throws) or is denied (every access       *)
(* throws), and the messages console.error received in the last step.     *)
(* hook is the hook's state in React: preferences, isLoaded, the queue of  *)
(* state updates not yet applied, and whether an exception left the hook.  *)
(***************************************************************************)
DEFAULT_UNIT_PREFERENCES ==
    JsonObject(<<[key |-> <<"l", "e", "n", "g", "t", "h">>, val |-> JsonString(<<"K", "i", "l", "o", "m", "e", "t", "e", "r", "s">>)],
                 [key |-> <<"v", "o", "l", "u", "m", "e">>, val |-> JsonString(<<"L", "i", "t", "e", "r", "s">>)],
                 [key |-> <<"w", "e", "i", "g", "h", "t">>, val |-> JsonString(<<"O", "u", "n", "c", "e", "s">>)],
                 [key |-> <<"t", "e", "m", "p", "e", "r", "a", "t", "u", "r", "e">>, val |-> JsonString(<<"C", "e", "l", "s", "i", "u", "s">>)],
                 [key |-> <<"t", "i", "m", "e">>, val |-> JsonString(<<"U", "n", "i", "x", " ", "E", "p", "o", "c", "h", " ", "(", "S", "e", "c", "o", "n", "d", "s", ")">>)],
                 [key |-> <<"d", "a", "t", "e">>, val |-> JsonString(<<"P", "i", "c", "k", " ", "e", "n", "d", " ", "d", "a", "t", "e">>)],
                 [key |-> <<"n", "u", "m", "b", "e", "r", "s">>, val |-> JsonString(<<"C", "o", "m", "p", "a", "r", "e", " ", "t", "w", "o", " ", "n", "u", "m", "b", "e", "r", "s">>)]>>)

CategoryIds == {DEFAULT_UNIT_PREFERENCES.props[i].key : i \in 1..Len(DEFAULT_UNIT_PREFERENCES.props)}

NoEntry == [has |-> FALSE, text |-> <<>>]
Entry(text) == [has |-> TRUE, text |-> text]

\* localStorage.getItem(STORAGE_KEY)
getItem(b) ==
    IF b.mode = "denied" THEN Thrown("SecurityError", "The operation is insecure.")
    ELSE Returned(b.storage)

\* localStorage.setItem(STORAGE_KEY, text)
setItem(b, text) ==
    IF b.mode \in {"full", "denied"} THEN [threw |-> TRUE, browser |-> b]
    ELSE [threw |-> FALSE, browser |-> [b EXCEPT !.storage = Entry(text)]]

\* localStorage.removeItem(STORAGE_KEY)
removeItem(b) ==
    IF b.mode = "denied" THEN [threw |-> TRUE, browser |-> b]
    ELSE [threw |-> FALSE, browser |-> [b EXCEPT !.storage = NoEntry]]

\* console.error(message, error)
ConsoleError(b, message) == [b EXCEPT !.console = Append(@, message)]

\* a step starts with nothing logged
Quiet(b) == [b EXCEPT !.console = <<>>]

\* the effect that loads the preferences on mount
LoadFailed(b) ==
    [preferences |-> DEFAULT_UNIT_PREFERENCES, isLoaded |-> TRUE,
     browser |-> ConsoleError(b, "Failed to load unit preferences from localStorage:")]

\* setPreferences(parsed): the parsed value without the defaults under it
MergeParsedAlone(b, parsed) ==
    IF parsed.threw THEN LoadFailed(b)
    ELSE [preferences |-> parsed.val, isLoaded |-> TRUE, browser |-> b]

\* setPreferences({ ...DEFAULT_UNIT_PREFERENCES, ...parsed })
MergeParsed(b, parsed) ==
    IF parsed.threw THEN LoadFailed(b)
    ELSE [preferences |-> Spread(DEFAULT_UNIT_PREFERENCES, parsed.val),
          isLoaded |-> TRUE, browser |-> b]

LoadStored(b, stored) ==
    IF stored.threw THEN LoadFailed(b)
    ELSE IF stored.val.has /\ stored.val.text # <<>>
    THEN MergeParsed(b, JSONParse(stored.val.text))
    ELSE [preferences |-> DEFAULT_UNIT_PREFERENCES, isLoaded |-> TRUE, browser |-> b]

LoadPreferences(b) == LoadStored(b, getItem(b))

\* the updater without try/catch: what setItem throws leaves the updater
SaveOutcomeRethrowing(newPreferences, b, saved) ==
    [state |-> newPreferences, threw |-> saved.threw, browser |-> IF saved.threw THEN b ELSE saved.browser]

\* the state updater of updatePreferences: merges, saves, returns the new
\* preferences; threw says an exception left it
SaveOutcome(newPreferences, b, saved) ==
    [state |-> newPreferences, threw |-> FALSE,
     browser |-> IF saved.threw
                 THEN ConsoleError(b, "Failed to save unit preferences to localStorage:")
                 ELSE saved.browser]

SavePreferences(newPreferences, b) ==
    SaveOutcome(newPreferences, b, setItem(b, JSONStringify(newPreferences)))

\* the updater returning the updates alone, without ...prev
UpdaterReplacing(prev, updates, b) == SavePreferences(updates, b)

Updater(prev, updates, b) == SavePreferences(Spread(prev, updates), b)

Update(kind, updates, state) == [kind |-> kind, updates |-> updates, state |-> state]

\* React applying the queued updates in order from the current state: an
\* updater runs now unless it ran when it was queued
RECURSIVE ProcessQueue(_, _, _), AfterUpdater(_, _, _)
ProcessQueue(queue, state, b) ==
    IF queue = <<>> THEN [state |-> state, threw |-> FALSE, browser |-> b]
    ELSE IF queue[1].kind = "updater"
    THEN AfterUpdater(queue, state, Updater(state, queue[1].updates, b))
    ELSE ProcessQueue(Tail(queue), queue[1].state, b)

\* after the first updater of the queue gave r
AfterUpdater(queue, state, r) ==
    IF r.threw THEN [state |-> state, threw |-> TRUE, browser |-> r.browser]
    ELSE ProcessQueue(Tail(queue), r.state, r.browser)

\* resetPreferences: the defaults queued as the next state, the entry removed
resetPreferences(h, b) ==
    LET removed == removeItem(b)
    IN  [hook |-> [h EXCEPT !.queue = Append(@, Update("value", JsonObject(<<>>), DEFAULT_UNIT_PREFERENCES))],
         browser |-> IF removed.threw
                     THEN ConsoleError(b, "Failed to reset unit preferences:")
                     ELSE removed.browser]

\* updatePreferences: the updater queued, or run at once when React computes
\* the state eagerly
QueueEager(h, updates, r) ==
    [hook |-> [h EXCEPT !.queue = IF r.threw THEN @ ELSE Append(@, Update("eager", updates, r.state)),
                        !.error = r.threw],
     browser |-> r.browser]

updatePreferences(h, b, updates, eager) ==
    IF eager
    THEN QueueEager(h, updates, Updater(h.preferences, updates, b))
    ELSE [hook |-> [h EXCEPT !.queue = Append(@, Update("updater", updates, JsonObject(<<>>)))],
          browser |-> b]

\* the render that applies the queue
Commit(h, r) ==
    [hook |-> [h EXCEPT !.preferences = r.state, !.queue = <<>>, !.error = r.threw],
     browser |-> r.browser]

Rendered(h, b) == Commit(h, ProcessQueue(h.queue, h.preferences, b))

getDefaultUnit(h, categoryId) == Property(h.preferences, categoryId)

(***************************************************************************)
(* The preferences dialog.  dialog is [open, localPreferences].  Each      *)
(* handler runs in an event of its own, and React applies the queued       *)
(* state updates before the next event.                                    *)
(***************************************************************************)
dialogCategories ==
    <<[id |-> <<"l", "e", "n", "g", "t", "h">>, units |-> <<<<"K", "i", "l", "o", "m", "e", "t", "e", "r", "s">>, <<"M", "i", "l", "e", "s">>, <<"M", "i", "l", "l", "i", "m", "e", "t", "e", "r", "s">>, <<"C", "e", "n", "t", "i", "m", "e", "t", "e", "r", "s">>,
                                     <<"M", "e", "t", "e", "r", "s">>, <<"I", "n", "c", "h", "e", "s">>, <<"F", "e", "e", "t">>, <<"Y", "a", "r", "d", "s">>>>],
      [id |-> <<"v", "o", "l", "u", "m", "e">>, units |-> <<<<"M", "i", "l", "l", "i", "l", "i", "t", "e", "r", "s">>, <<"L", "i", "t", "e", "r", "s">>, <<"F", "l", "u", "i", "d", " ", "O", "u", "n", "c", "e", "s">>, <<"C", "u", "p", "s">>,
                                     <<"P", "i", "n", "t", "s">>, <<"Q", "u", "a", "r", "t", "s">>, <<"G", "a", "l", "l", "o", "n", "s">>>>],
      [id |-> <<"w", "e", "i", "g", "h", "t">>, units |-> <<<<"G", "r", "a", "m", "s">>, <<"K", "i", "l", "o", "g", "r", "a", "m", "s">>, <<"M", "e", "t", "r", "i", "c", " ", "T", "o", "n", "s">>, <<"O", "u", "n", "c", "e", "s">>,
                                     <<"P", "o", "u", "n", "d", "s">>, <<"U", "S", " ", "T", "o", "n", "s">>, <<"S", "t", "o", "n", "e">>>>],
      [id |-> <<"t", "e", "m", "p", "e", "r", "a", "t", "u", "r", "e">>, units |-> <<<<"C", "e", "l", "s", "i", "u", "s">>, <<"F", "a", "h", "r", "e", "n", "h", "e", "i", "t">>, <<"K", "e", "l", "v", "i", "n">>>>],
      [id |-> <<"t", "i", "m", "e">>, units |-> <<<<"U", "n", "i", "x", " ", "E", "p", "o", "c", "h", " ", "(", "S", "e", "c", "o", "n", "d", "s", ")">>, <<"U", "n", "i", "x", " ", "E", "p", "o", "c", "h", " ", "(", "M", "i", "l", "l", "i", "s", "e", "c", "o", "n", "d", "s", ")">>,
                                   <<"L", "o", "c", "a", "l", " ", "D", "a", "t", "e", "t", "i", "m", "e">>, <<"U", "T", "C", " ", "D", "a", "t", "e", "t", "i", "m", "e">>>>]>>

\* the effect that copies the preferences when they change or the dialog opens
SyncLocalPreferences(d, h) == [d EXCEPT !.localPreferences = h.preferences]

\* the dialog's handleUnitChange
selectPreference(d, categoryId, unit) ==
    [d EXCEPT !.localPreferences =
        Spread(@, JsonObject(<<[key |-> categoryId, val |-> JsonString(unit)]>>))]

\* onOpenChange(false), then the render and the effect
Closed(d, r) ==
    [hook |-> r.hook, browser |-> r.browser,
     dialog |-> SyncLocalPreferences([d EXCEPT !.open = FALSE], r.hook)]

CloseAfter(d, u) == Closed(d, Rendered(u.hook, u.browser))

handleSave(d, h, b) == CloseAfter(d, updatePreferences(h, b, d.localPreferences, FALSE))

handleCancel(d, h) == [[d EXCEPT !.open = FALSE] EXCEPT !.localPreferences = h.preferences]

handleReset(d, h, b) == CloseAfter(d, resetPreferences(h, b))

(***************************************************************************)
(* The page's categories and the unit converter form.  form is the form of *)
(* one category: [mounted, category, defaultUnit, value, fromUnit,         *)
(* results, hasConverted]; value and fromUnit are the form's field values. *)
(***************************************************************************)
categories ==
    <<[id |-> <<"l", "e", "n", "g", "t", "h">>, units |-> <<<<"K", "i", "l", "o", "m", "e", "t", "e", "r", "s">>, <<"M", "i", "l", "e", "s">>, <<"M", "i", "l", "l", "i", "m", "e", "t", "e", "r", "s">>, <<"C", "e", "n", "t", "i", "m", "e", "t", "e", "r", "s">>,
                                     <<"M", "e", "t", "e", "r", "s">>, <<"I", "n", "c", "h", "e", "s">>, <<"F", "e", "e", "t">>, <<"Y", "a", "r", "d", "s">>, <<"S", "t", "e", "p", "s", " ", "(", "W", "a", "l", "k", "i", "n", "g", ")">>>>],
      [id |-> <<"v", "o", "l", "u", "m", "e">>, units |-> <<<<"M", "i", "l", "l", "i", "l", "i", "t", "e", "r", "s">>, <<"L", "i", "t", "e", "r", "s">>, <<"F", "l", "u", "i", "d", " ", "O", "u", "n", "c", "e", "s">>, <<"C", "u", "p", "s">>,
                                     <<"P", "i", "n", "t", "s">>, <<"Q", "u", "a", "r", "t", "s">>, <<"G", "a", "l", "l", "o", "n", "s">>>>],
      [id |-> <<"w", "e", "i", "g", "h", "t">>, units |-> <<<<"G", "r", "a", "m", "s">>, <<"K", "i", "l", "o", "g", "r", "a", "m", "s">>, <<"M", "e", "t", "r", "i", "c", " ", "T", "o", "n", "s">>, <<"O", "u", "n", "c", "e", "s">>,
                                     <<"P", "o", "u", "n", "d", "s">>, <<"U", "S", " ", "T", "o", "n", "s">>, <<"S", "t", "o", "n", "e">>>>],
      [id |-> <<"t", "e", "m", "p", "e", "r", "a", "t", "u", "r", "e">>, units |-> <<<<"C", "e", "l", "s", "i", "u", "s">>, <<"F", "a", "h", "r", "e", "n", "h", "e", "i", "t">>, <<"K", "e", "l", "v", "i", "n">>>>],
      [id |-> <<"t", "i", "m", "e">>, units |-> <<<<"U", "n", "i", "x", " ", "E", "p", "o", "c", "h", " ", "(", "S", "e", "c", "o", "n", "d", "s", ")">>, <<"U", "n", "i", "x", " ", "E", "p", "o", "c", "h", " ", "(", "M", "i", "l", "l", "i", "s", "e", "c", "o", "n", "d", "s", ")">>,
                                   <<"L", "o", "c", "a", "l", " ", "D", "a", "t", "e", "t", "i", "m", "e">>, <<"U", "T", "C", " ", "D", "a", "t", "e", "t", "i", "m", "e">>>>],
      [id |-> <<"d", "a", "t", "e">>, units |-> <<<<"F", "r", "o", "m", " ", "D", "a", "t", "e">>, <<"T", "o", " ", "D", "a", "t", "e">>>>]>>

\* the units of a category of a list of categories
UnitsOffered(list, id) == list[CHOOSE i \in 1..Len(list) : list[i].id = id].units

\* getConversionProps: the functions the page hands the form of a category
ConversionCategories == {<<"l", "e", "n", "g", "t", "h">>, <<"v", "o", "l", "u", "m", "e">>, <<"w", "e", "i", "g", "h", "t">>, <<"t", "e", "m", "p", "e", "r", "a", "t", "u", "r", "e">>}

convertFunction(categoryId, value, unitId) ==
    CASE categoryId = <<"l", "e", "n", "g", "t", "h">> -> convertLength(value, unitId)
      [] categoryId = <<"v", "o", "l", "u", "m", "e">> -> convertVolume(value, unitId)
      [] categoryId = <<"w", "e", "i", "g", "h", "t">> -> convertWeight(value, unitId)
      [] OTHER -> convertTemperature(value, unitId)

getUnitIdFunction(categoryId, unitName) ==
    CASE categoryId = <<"l", "e", "n", "g", "t", "h">> -> getUnitIdFromNameLength(unitName)
      [] categoryId = <<"v", "o", "l", "u", "m", "e">> -> getUnitIdFromNameVolume(unitName)
      [] categoryId = <<"w", "e", "i", "g", "h", "t">> -> getUnitIdFromNameWeight(unitName)
      [] OTHER -> getUnitIdFromNameTemperature(unitName)

\* the messages of formSchema for value and fromUnit, "" when a field passes
formSchema(value, fromUnit) ==
    <<IF Len(value) < 1 THEN "Please enter a value"
      ELSE IF IsNaN(parseFloat(value)) \/ ~IsFinite(parseFloat(value)) THEN "Please enter a valid number"
      ELSE "",
      IF Len(fromUnit) < 1 THEN "Please select a unit" ELSE "">>

\* if (unitId)
HasUnitId(unitId) == unitId.type = "string" /\ unitId.value # ""

\* the conversion both handleConvert and the watch callback make
SetResults(f, conversionResults) ==
    IF conversionResults.threw THEN f
    ELSE [f EXCEPT !.results = conversionResults.val, !.hasConverted = TRUE]

ConvertFrom(f, numericValue, unitId) ==
    IF HasUnitId(unitId)
    THEN SetResults(f, convertFunction(f.category, numericValue, unitId.value))
    ELSE f

ConvertInto(f, numericValue) ==
    ConvertFrom(f, numericValue, getUnitIdFunction(f.category, f.fromUnit))

unitFormHandleConvert(f) == ConvertInto(f, parseFloat(f.value))

ClearResults(f) == [f EXCEPT !.results = <<>>, !.hasConverted = FALSE]

\* the callback of form.watch, called with the field values after a change
WatchCallback(f) ==
    IF f.value # <<>> /\ f.fromUnit # <<>>
    THEN [numericValue \in Double |->
             IF ~IsNaN(numericValue) /\ IsFinite(numericValue)
             THEN ConvertInto(f, numericValue)
             ELSE f
         ][parseFloat(f.value)]
    ELSE ClearResults(f)

\* the value field's onChange
onChange(f, text) == WatchCallback([f EXCEPT !.value = text])

\* the form's handleUnitChange
handleUnitChange(f, newUnit) ==
    ClearResults(WatchCallback([WatchCallback([f EXCEPT !.fromUnit = newUnit]) EXCEPT !.value = <<>>]))

\* form.handleSubmit(handleConvert), on Enter
unitFormHandleSubmit(f) == IF formSchema(f.value, f.fromUnit) = <<"", "">> THEN unitFormHandleConvert(f) ELSE f

\* the effect on a change of defaultUnit, and on mount
ResetForm(f, defaultUnit) ==
    ClearResults(WatchCallback([f EXCEPT !.defaultUnit = defaultUnit, !.value = <<>>, !.fromUnit = defaultUnit]))

(***************************************************************************)
(* The callers: any value and any unit id or name may be passed.           *)
(***************************************************************************)
Keys(units) == {units[i].key : i \in 1..Len(units)}

AllKeys == Keys(volumeUnitsTable) \cup Keys(lengthUnitsTable)
             \cup Keys(weightUnitsTable) \cup Keys(temperatureUnitsTable)

\* ids of no table: unknown words, the empty string, inherited property names
ForeignIds == {"invalid-unit", "not-a-real-unit", "", "Meters", "steps",
               "constructor", "toString", "__proto__", "hasOwnProperty"}

UnitIdInputs == AllKeys \cup ForeignIds

\* values passed to the convert functions
Values == {FromInt(0), Zero(1), FromInt(1), Dec(25, 1), FromInt(100), FromInt(-40),
           Dec(1, 1), Dec(27315, 2), FromInt(32), Dec(255, 1), FromInt(3),
           Dec(-123456789, 2), NaN, Inf(0)}

\* values passed to formatNumber: n + j / 10^5 around whole numbers, around
\* the hundredths' rounding points, and the values of the test suite
MaxNoise == 12
Noise == (-MaxNoise..MaxNoise) \cup {j * s : j \in 495..505, s \in {-1, 1}}
Wholes == {0, 1, -1, 10, 999, -999, 1000, 12345}

FormatValues ==
    {Dec(k * 10^5 + j, 5) : k \in Wholes, j \in Noise}
      \cup {Dec(25, 2), Dec(1, 1), Dec(99, 2), Dec(314159, 5), Dec(10999, 3), Dec(-525, 2),
            FromInt(1000000), FromInt(-1000), Dec(999999995, 3), Dec(-999999995, 3),
            Dec(5, 1), Dec(-5, 1), Dec(15, 1), Dec(125, 3), Dec(-125, 3),
            FromInt(2147483647), Zero(1), NaN, Inf(0), Inf(1)}

\* names passed to getUnitIdFromName: every unit name of every table with at
\* most MaxFlips letters changed in case, all upper, all lower, and others
MaxFlips == 1

UpperChar(c) == IF \E i \in 1..26 : LowerCase[i] = c
                THEN UpperCase[CHOOSE i \in 1..26 : LowerCase[i] = c]
                ELSE c

FlipChar(c) == IF LowerChar(c) # c THEN LowerChar(c) ELSE UpperChar(c)

Flipped(str, at) == [i \in 1..Len(str) |-> IF i \in at THEN FlipChar(str[i]) ELSE str[i]]

CaseVariants(str) ==
    {Flipped(str, at) : at \in {a \in SUBSET (1..Len(str)) : Cardinality(a) <= MaxFlips}}
      \cup {toLowerCase(str), [i \in 1..Len(str) |-> UpperChar(str[i])]}

TableNames(units) == {units[i].val.name : i \in 1..Len(units)}

AllNames == TableNames(volumeUnitsTable) \cup TableNames(lengthUnitsTable)
              \cup TableNames(weightUnitsTable) \cup TableNames(temperatureUnitsTable)

OtherNames == {<<"I", "n", "v", "a", "l", "i", "d", "U", "n", "i", "t">>, <<>>, <<"M", "e", "t", "e", "r">>, <<"S", "t", "o", "n", "e", "s">>, <<"k", "m">>, <<"S", "t", "e", "p", "s", " ", "(", "W", "a", "l", "k", "i", "n", "g", ")">>}

NameInputs == UNION {CaseVariants(n) : n \in AllNames} \cup OtherNames

NoCall == [fn |-> "", value |-> Zero(0), unit |-> "", name |-> <<>>, args |-> <<>>]

\* the source unit deleted from the tables instead of filtered from a copy
CallDeletingSource(fn, value, unit, name, outcome) ==
    /\ pc' = "returned"
    /\ call' = [fn |-> fn, value |-> value, unit |-> unit, name |-> name, args |-> <<>>]
    /\ ret' = outcome
    /\ volumeUnits' = SelectSeq(volumeUnits, LAMBDA p : fn # "convertVolume" \/ p.key # unit)
    /\ lengthUnits' = SelectSeq(lengthUnits, LAMBDA p : fn # "convertLength" \/ p.key # unit)
    /\ weightUnits' = SelectSeq(weightUnits, LAMBDA p : fn # "convertWeight" \/ p.key # unit)
    /\ temperatureUnits' = SelectSeq(temperatureUnits, LAMBDA p : fn # "convertTemperature" \/ p.key # unit)
    /\ UNCHANGED <<zone, browser, hook, dialog, form>>

Call(fn, value, unit, name, outcome) ==
    /\ pc' = "returned"
    /\ call' = [fn |-> fn, value |-> value, unit |-> unit, name |-> name, args |-> <<>>]
    /\ ret' = outcome
    /\ UNCHANGED env

\* a call of a function of several arguments
CallArgs(fn, args, outcome) ==
    /\ pc' = "returned"
    /\ call' = [fn |-> fn, value |-> Zero(0), unit |-> "", name |-> <<>>, args |-> args]
    /\ ret' = outcome
    /\ UNCHANGED env

CallConvertVolume ==
    /\ pc = "idle"
    /\ \E v \in Values, id \in UnitIdInputs :
           Call("convertVolume", v, id, <<>>, convertVolume(v, id))

CallConvertLength ==
    /\ pc = "idle"
    /\ \E v \in Values, id \in UnitIdInputs :
           Call("convertLength", v, id, <<>>, convertLength(v, id))

CallConvertWeight ==
    /\ pc = "idle"
    /\ \E v \in Values, id \in UnitIdInputs :
           Call("convertWeight", v, id, <<>>, convertWeight(v, id))

CallConvertTemperature ==
    /\ pc = "idle"
    /\ \E v \in Values, id \in UnitIdInputs :
           Call("convertTemperature", v, id, <<>>, convertTemperature(v, id))

CallFormatNumber ==
    /\ pc = "idle"
    /\ \E v \in FormatValues :
           Call("formatNumber", v, "", <<>>, Returned(formatNumber(v)))

CallGetVolumeUnitNames ==
    /\ pc = "idle"
    /\ Call("getVolumeUnitNames", Zero(0), "", <<>>, Returned(getVolumeUnitNames))

CallGetLengthUnitNames ==
    /\ pc = "idle"
    /\ Call("getLengthUnitNames", Zero(0), "", <<>>, Returned(getLengthUnitNames))

CallGetWeightUnitNames ==
    /\ pc = "idle"
    /\ Call("getWeightUnitNames", Zero(0), "", <<>>, Returned(getWeightUnitNames))

CallGetTemperatureUnitNames ==
    /\ pc = "idle"
    /\ Call("getTemperatureUnitNames", Zero(0), "", <<>>, Returned(getTemperatureUnitNames))

CallGetUnitIdFromNameVolume ==
    /\ pc = "idle"
    /\ \E n \in NameInputs :
           Call("getUnitIdFromNameVolume", Zero(0), "", n, Returned(getUnitIdFromNameVolume(n)))

CallGetUnitIdFromNameLength ==
    /\ pc = "idle"
    /\ \E n \in NameInputs :
           Call("getUnitIdFromNameLength", Zero(0), "", n, Returned(getUnitIdFromNameLength(n)))

CallGetUnitIdFromNameWeight ==
    /\ pc = "idle"
    /\ \E n \in NameInputs :
           Call("getUnitIdFromNameWeight", Zero(0), "", n, Returned(getUnitIdFromNameWeight(n)))

CallGetUnitIdFromNameTemperature ==
    /\ pc = "idle"
    /\ \E n \in NameInputs :
           Call("getUnitIdFromNameTemperature", Zero(0), "", n,
                Returned(getUnitIdFromNameTemperature(n)))

\* seconds and milliseconds passed to fromUnixSeconds and fromUnixMilliseconds:
\* the instants within MaxSkew of a few bases, fractions, and values that are
\* no time value
MaxSkew == 3
YEAR2022 == DMul(FromInt(1640995200), FromInt(1000))
JULY2022 == DMul(FromInt(1656633600), FromInt(1000))

MsBases == {FromInt(0), FromInt(1000), FromInt(-1000), FromInt(-86400000), YEAR2022, JULY2022,
            DNeg(YEAR2022)}

MsInstants == {DAdd(b, FromInt(j)) : b \in MsBases, j \in -MaxSkew..MaxSkew}

MillisecondInputs ==
    MsInstants \cup {Dec(15, 1), Dec(-5, 1), Dec(-9995, 1), Zero(1), MaxUnixMilliseconds, MaxTimeValue,
                     DNeg(MaxTimeValue), DSub(MaxTimeValue, FromInt(1)),
                     DAdd(MaxTimeValue, FromInt(1)), NaN, Inf(0), Inf(1)}

SecondInputs ==
    {FromInt(j) : j \in -MaxSkew..MaxSkew}
      \cup {FromInt(1640995200), FromInt(1656633600), MaxUnixSeconds, Dec(15, 1), Dec(5, 4), Dec(-5, 4),
            Dec(-15, 1), Zero(1), MaxTimeValue, NaN, Inf(0)}

DatetimeInputs == {<<"2", "0", "2", "5", "-", "1", "0", "-", "1", "9", "T", "1", "4", ":", "3", "0", ":", "0", "0">>,
                   <<"2", "0", "2", "5", "-", "1", "0", "-", "1", "9", "T", "1", "8", ":", "3", "0", ":", "0", "0", ".", "0", "0", "0", "Z">>,
                   <<"1", "9", "7", "0", "-", "0", "1", "-", "0", "1", "T", "0", "0", ":", "0", "0", ":", "0", "0">>,
                   <<"1", "9", "6", "9", "-", "1", "2", "-", "3", "1", "T", "2", "3", ":", "5", "9", ":", "5", "9", ".", "9", "9", "9", "Z">>,
                   <<"2", "0", "2", "2", "-", "0", "1", "-", "0", "1">>,
                   <<"2", "0", "2", "4", "-", "0", "2", "-", "2", "9", "T", "1", "2", ":", "0", "0">>,
                   <<"2", "0", "2", "5", "-", "0", "3", "-", "0", "9", "T", "0", "2", ":", "3", "0", ":", "0", "0">>,
                   <<"2", "0", "2", "5", "-", "1", "1", "-", "0", "2", "T", "0", "1", ":", "3", "0", ":", "0", "0">>,
                   <<"2", "0", "2", "2", "-", "0", "7", "-", "0", "1", "T", "0", "0", ":", "0", "0", ":", "0", "0", "Z">>,
                   <<"1", "9", "6", "9", "-", "0", "7", "-", "2", "0", "T", "2", "0", ":", "1", "7", ":", "4", "0">>,
                   <<"0", "0", "9", "9", "-", "0", "6", "-", "1", "5", "T", "1", "2", ":", "0", "0", ":", "0", "0", "Z">>,
                   <<"2", "0", "2", "5", "-", "0", "6", "-", "1", "5", "T", "2", "4", ":", "0", "0", ":", "0", "0">>,
                   <<"n", "o", "t", " ", "a", " ", "d", "a", "t", "e">>,
                   <<>>,
                   <<"2", "0", "2", "5", "-", "1", "3", "-", "0", "1", "T", "0", "0", ":", "0", "0", ":", "0", "0">>,
                   <<"2", "0", "2", "5", "-", "1", "0", "-", "1", "9", "T", "1", "4", ":", "3", "0", ":", "6", "1">>}

CallGetCurrentTime ==
    /\ pc = "idle"
    /\ \E now \in MsInstants :
           Call("getCurrentTime", now, "", <<>>, getCurrentTime(zone, now))

CallFromUnixSeconds ==
    /\ pc = "idle"
    /\ \E v \in SecondInputs :
           Call("fromUnixSeconds", v, "", <<>>, fromUnixSeconds(zone, v))

CallFromUnixMilliseconds ==
    /\ pc = "idle"
    /\ \E v \in MillisecondInputs :
           Call("fromUnixMilliseconds", v, "", <<>>, fromUnixMilliseconds(zone, v))

CallFromLocalDatetime ==
    /\ pc = "idle"
    /\ \E str \in DatetimeInputs :
           Call("fromLocalDatetime", Zero(0), "", str, fromLocalDatetime(zone, str))

CallFromUTCDatetime ==
    /\ pc = "idle"
    /\ \E str \in DatetimeInputs :
           Call("fromUTCDatetime", Zero(0), "", str, fromUTCDatetime(zone, str))


\* texts typed into the number fields of the forms
NumberTexts ==
    {<<>>,
     <<" ">>,
     <<"0">>,
     <<"-", "0">>,
     <<"1">>,
     <<"5">>,
     <<"2", "0", "0">>,
     <<"2", "0", "5">>,
     <<"2", ".", "5">>,
     <<"-", "1">>,
     <<"1", ".", "5">>,
     <<"0", ".", "0", "0", "0", "5">>,
     <<"1", "7", "0", "0", "0", "0", "0", "0", "0", "0">>,
     <<"4", "1", "0", "2", "4", "4", "4", "8", "0", "0">>,
     <<"4", "1", "0", "2", "4", "4", "4", "8", "0", "1">>,
     <<"4", "1", "0", "2", "4", "4", "4", "8", "0", "0", "0", "0", "0">>,
     <<"4", "1", "0", "2", "4", "4", "4", "8", "0", "0", "0", "0", "1">>,
     <<"a", "b", "c">>,
     <<"1", "2", "a", "b", "c">>,
     <<"0", "x", "1", "0">>,
     <<"I", "n", "f", "i", "n", "i", "t", "y">>,
     <<"1", "e", "3">>,
     <<" ", "4", "2", " ">>,
     <<"-", "4", "0">>}

CallIsValidUnixSeconds ==
    /\ pc = "idle"
    /\ \E text \in NumberTexts :
           Call("isValidUnixSeconds", Zero(0), "", text, Returned(isValidUnixSeconds(text)))

CallIsValidUnixMilliseconds ==
    /\ pc = "idle"
    /\ \E text \in NumberTexts :
           Call("isValidUnixMilliseconds", Zero(0), "", text, Returned(isValidUnixMilliseconds(text)))

CallIsValidDatetime ==
    /\ pc = "idle"
    /\ \E text \in DatetimeInputs :
           Call("isValidDatetime", Zero(0), "", text, Returned(isValidDatetime(zone, text)))

\* the time form submitted with a unit type selected and a value typed
SubmitTimeForm ==
    /\ pc = "idle"
    /\ \E unitType \in TimeUnit, text \in NumberTexts \cup DatetimeInputs :
           Call("handleSubmit", Zero(0), unitType, text, Returned(handleSubmit(zone, unitType, text)))

\* the hour an implementation prints for 00:xx under hour12: false
MidnightHours == {<<"0", "0">>, <<"2", "4">>}

\* the local datetime of a result displayed, with either flag
CallFormatLocalDatetimeDisplay ==
    /\ pc = "idle"
    /\ \E t \in MsInstants, isDST \in BOOLEAN, midnight \in MidnightHours :
           CallArgs("formatLocalDatetimeDisplay",
                    <<formatLocalDatetime(zone, t), getTimezoneInfo(zone, t).timezone, isDST>>,
                    formatLocalDatetimeDisplay(zone, formatLocalDatetime(zone, t),
                                               getTimezoneInfo(zone, t).timezone, isDST, midnight))

\* dates picked in the date form: local midnight of the days within
\* MaxDayShift of a few days, among them the days daylight saving time
\* starts and ends, the end of a leap February and the end of a year
MaxDayShift == 2
PickedDays == {DaysFromCivil(2025, 3, 9), DaysFromCivil(2025, 11, 2), DaysFromCivil(2024, 2, 29),
               DaysFromCivil(2024, 12, 31), DaysFromCivil(1970, 1, 1)}

DateInputs ==
    {MakeDate(UTCDayTime(zone, <<d + j, 0>>)) : d \in PickedDays, j \in -MaxDayShift..MaxDayShift}

\* texts typed into the days field
DaysTexts ==
    {IntChars(n) : n \in -MaxDayShift..MaxDayShift}
      \cup {<<>>, <<"3", "0">>, <<"-", "3", "1">>, <<"3", "6", "5">>, <<"-", "3", "6", "6">>, <<"1", ".", "5">>, <<"a", "b", "c">>, <<"1", "e", "3">>, <<"3", "0", "0", "0", "0", "0", "0", "0", "0">>}

DateFormDifference ==
    /\ pc = "idle"
    /\ \E fromDate \in DateInputs \cup {NaN}, toDate \in DateInputs \cup {Null, NaN} :
           CallArgs("dateDifference", <<fromDate, toDate>>,
                    Returned([result  |-> DateResult(zone, "date", fromDate, toDate, <<>>),
                              display |-> DateDisplay(zone, "date",
                                                      DateResult(zone, "date", fromDate, toDate, <<>>))]))

DateFormOffset ==
    /\ pc = "idle"
    /\ \E fromDate \in DateInputs \cup {NaN}, days \in DaysTexts :
           CallArgs("dateOffset", <<fromDate, days>>,
                    Returned([result  |-> DateResult(zone, "days", fromDate, Null, days),
                              display |-> DateDisplay(zone, "days",
                                                      DateResult(zone, "days", fromDate, Null, days))]))

\* the end date of the days mode picked as the to date of the date mode
DateRoundTrip(z, fromDate, offset) ==
    [offset |-> offset, difference |-> DateResult(z, "date", fromDate, offset.endDate, <<>>)]

DateFormOffsetThenDifference ==
    /\ pc = "idle"
    /\ \E fromDate \in DateInputs, days \in DaysTexts :
           CallArgs("dateRoundTrip", <<fromDate, days>>,
                    Returned(DateRoundTrip(zone, fromDate, DateResult(zone, "days", fromDate, Null, days))))

\* numbers compared: small ones, fractions, signed zeros and the ends of the range
MaxDouble == Fin(0, BSub(BShl(<<1>>, MantBits), <<1>>), MaxExp)
MinDouble == Fin(0, <<1>>, MinExp)

CompareValues == {FromInt(0), Zero(1), FromInt(1), FromInt(-1), FromInt(200), FromInt(205), FromInt(5),
                  Dec(25, 1), Dec(1, 1), Dec(-3, 1), FromInt(3), MaxDouble, DNeg(MaxDouble), MinDouble}

CallCompare ==
    /\ pc = "idle"
    /\ \E first \in CompareValues, second \in CompareValues :
           CallArgs("Compare", <<first, second>>, Returned(Compare(first, second)))

CallPercentOf ==
    /\ pc = "idle"
    /\ \E base \in CompareValues, percent \in CompareValues :
           CallArgs("PercentOf", <<base, percent>>, Returned(PercentOf(base, percent)))

\* the number the percent mode gives compared with its base
AdjustedCompared(base, adjusted) == [adjusted |-> adjusted, compared |-> Compare(base, adjusted)]

PercentValues == CompareValues \cup {FromInt(-100), FromInt(100), FromInt(10), FromInt(50), Dec(-125, 1)}

CallPercentOfThenCompare ==
    /\ pc = "idle"
    /\ \E base \in CompareValues, percent \in PercentValues :
           CallArgs("PercentOfThenCompare", <<base, percent>>,
                    Returned(AdjustedCompared(base, PercentOf(base, percent))))

SubmitCompareForm ==
    /\ pc = "idle"
    /\ \E first \in NumberTexts, second \in NumberTexts :
           CallArgs("submitCompare", <<first, second>>, Returned(submitCompare(first, second)))

SubmitPercentForm ==
    /\ pc = "idle"
    /\ \E base \in NumberTexts, percent \in NumberTexts :
           CallArgs("submitPercent", <<base, percent>>, Returned(submitPercent(base, percent)))

\* values taken to the base unit and back: tenths up to MaxTrip tenths, the
\* values passed to the convert functions, and the ends of the range
MaxTrip == 12
Huge == Fin(0, BShl(<<1>>, MantBits - 1), 944)
Tiny == Fin(0, BShl(<<1>>, MantBits - 1), -1048)

RoundTripValues ==
    Values \cup {Dec(j, 1) : j \in -MaxTrip..MaxTrip}
      \cup {Huge, DNeg(Huge), Tiny, DNeg(Tiny), MaxDouble, MinDouble}

LinearTables ==
    {<<"volumeUnits", volumeUnits>>, <<"lengthUnits", lengthUnits>>, <<"weightUnits", weightUnits>>}

\* a unit's toBase applied to a value and its fromBase applied to the outcome
ApplyRoundTrip ==
    /\ pc = "idle"
    /\ \E t \in LinearTables, v \in RoundTripValues :
           \E i \in 1..Len(t[2]) :
               CallArgs("roundTrip", <<t[1], t[2][i].key, v>>,
                        Returned([base |-> Apply(t[2][i].val.toBase, v),
                                  back |-> Apply(t[2][i].val.fromBase, Apply(t[2][i].val.toBase, v))]))

\* temperatures n / 10^d: small numbers, the fixed points of the scales,
\* and large ones
TemperatureNumerators ==
    (-MaxTrip..MaxTrip) \cup {-45967, -27315, -4000, -40, 25, 32, 100, 212, 255, 451, 27315, 37315, 50000}

ApplyTemperatureFormulas ==
    /\ pc = "idle"
    /\ \E n \in TemperatureNumerators, d \in 0..2 :
           CallArgs("temperatureFormulas", <<n, d>>, Returned(TemperatureFormulas(n, d)))

(***************************************************************************)
(* The preferences hook in use.                                            *)
(***************************************************************************)
Unmounted == [mounted |-> FALSE, preferences |-> DEFAULT_UNIT_PREFERENCES, isLoaded |-> FALSE,
              queue |-> <<>>, error |-> FALSE]
NoBrowser == [mode |-> "unset", storage |-> NoEntry, console |-> <<>>]

StoredPreferences(props) == JSONStringify(JsonObject(props))

\* what an earlier visit, another version of the application or the user
\* left in storage
StoredTexts ==
    {<<>>,
     <<[k |-> "space", v |-> <<>>]>>,
     <<[k |-> "word", v |-> <<"i", "n", "v", "a", "l", "i", "d", "-", "j", "s", "o", "n">>]>>,
     <<Tok("{"), StringTok(<<"i", "n", "v", "a", "l", "i", "d", "S", "t", "r", "u", "c", "t", "u", "r", "e">>), Tok(":"), Tok("true"), Tok("}")>>,
     <<Tok("{"), StringTok(<<"l", "e", "n", "g", "t", "h">>), Tok(":"), StringTok(<<"M", "i", "l", "e", "s">>)>>,
     JSONStringify(Spread(DEFAULT_UNIT_PREFERENCES,
                          JsonObject(<<[key |-> <<"l", "e", "n", "g", "t", "h">>, val |-> JsonString(<<"M", "i", "l", "e", "s">>)],
                                       [key |-> <<"v", "o", "l", "u", "m", "e">>, val |-> JsonString(<<"G", "a", "l", "l", "o", "n", "s">>)]>>))),
     StoredPreferences(<<[key |-> <<"w", "e", "i", "g", "h", "t">>, val |-> JsonString(<<"P", "o", "u", "n", "d", "s">>)]>>),
     StoredPreferences(<<[key |-> <<"l", "e", "n", "g", "t", "h">>, val |-> JsonString(<<"S", "t", "e", "p", "s", " ", "(", "W", "a", "l", "k", "i", "n", "g", ")">>)]>>),
     StoredPreferences(<<[key |-> <<"l", "e", "n", "g", "t", "h">>, val |-> JsonNull]>>),
     <<Tok("null")>>,
     <<StringTok(<<"a", "b">>)>>,
     <<Tok("["), NumberTok(<<"1">>), Tok("]")>>}

StorageModes == {"ok", "full", "denied"}

\* the updates passed to updatePreferences
UpdateInputs ==
    {JsonObject(<<[key |-> <<"l", "e", "n", "g", "t", "h">>, val |-> JsonString(<<"K", "i", "l", "o", "m", "e", "t", "e", "r", "s">>)]>>),
     JsonObject(<<[key |-> <<"l", "e", "n", "g", "t", "h">>, val |-> JsonString(<<"M", "i", "l", "e", "s">>)],
                  [key |-> <<"w", "e", "i", "g", "h", "t">>, val |-> JsonString(<<"P", "o", "u", "n", "d", "s">>)],
                  [key |-> <<"t", "e", "m", "p", "e", "r", "a", "t", "u", "r", "e">>, val |-> JsonString(<<"F", "a", "h", "r", "e", "n", "h", "e", "i", "t">>)]>>),
     JsonObject(<<[key |-> <<"t", "e", "m", "p", "e", "r", "a", "t", "u", "r", "e">>, val |-> JsonString(<<"F", "a", "h", "r", "e", "n", "h", "e", "i", "t">>)]>>)}

\* updates queued before React applies them
MaxQueue == 2

\* the state of storage when the page is opened
StorageHolds ==
    /\ browser.mode = "unset"
    /\ \E mode \in StorageModes, entry \in {NoEntry} \cup {Entry(text) : text \in StoredTexts} :
           browser' = [mode |-> mode, storage |-> entry, console |-> <<>>]
    /\ UNCHANGED <<tables, zone, pc, call, ret, hook, dialog, form>>

\* the hook mounts: first render, then the effect that loads
Mount ==
    /\ browser.mode # "unset"
    /\ ~hook.mounted
    /\ \E r \in {LoadPreferences(Quiet(browser))} :
           /\ hook' = [hook EXCEPT !.mounted = TRUE, !.preferences = r.preferences, !.isLoaded = r.isLoaded]
           /\ browser' = r.browser
    /\ UNCHANGED <<tables, zone, pc, call, ret, dialog, form>>

CallUpdatePreferences ==
    /\ hook.mounted /\ ~hook.error
    /\ Len(hook.queue) < MaxQueue
    /\ \E updates \in UpdateInputs, eager \in BOOLEAN :
           /\ eager => hook.queue = <<>>
           /\ \E r \in {updatePreferences(hook, Quiet(browser), updates, eager)} :
                  hook' = r.hook /\ browser' = r.browser
    /\ UNCHANGED <<tables, zone, pc, call, ret, dialog, form>>

CallResetPreferences ==
    /\ hook.mounted /\ ~hook.error
    /\ Len(hook.queue) < MaxQueue
    /\ \E r \in {resetPreferences(hook, Quiet(browser))} :
           hook' = r.hook /\ browser' = r.browser
    /\ UNCHANGED <<tables, zone, pc, call, ret, dialog, form>>

Render ==
    /\ hook.mounted /\ ~hook.error
    /\ hook.queue # <<>>
    /\ \E r \in {Rendered(hook, Quiet(browser))} :
           hook' = r.hook /\ browser' = r.browser
    /\ UNCHANGED <<tables, zone, pc, call, ret, dialog, form>>

(***************************************************************************)
(* The preferences dialog and the unit converter form in use.              *)
(***************************************************************************)
ClosedDialog == [open |-> FALSE, localPreferences |-> DEFAULT_UNIT_PREFERENCES]
NoForm == [mounted |-> FALSE, category |-> <<>>, defaultUnit |-> <<>>, value |-> <<>>,
           fromUnit |-> <<>>, results |-> <<>>, hasConverted |-> FALSE]

\* the units the user picks in the dialog: the first MaxPick offered of each
\* category
MaxPick == 2

OpenDialog ==
    /\ hook.mounted /\ ~dialog.open
    /\ dialog' = SyncLocalPreferences([dialog EXCEPT !.open = TRUE], hook)
    /\ UNCHANGED <<tables, zone, pc, call, ret, browser, hook, form>>

DialogSelect ==
    /\ dialog.open
    /\ \E i \in 1..Len(dialogCategories) :
         \E j \in 1..Len(dialogCategories[i].units) :
           /\ j <= MaxPick
           /\ dialog' = selectPreference(dialog, dialogCategories[i].id, dialogCategories[i].units[j])
    /\ UNCHANGED <<tables, zone, pc, call, ret, browser, hook, form>>

DialogSave ==
    /\ dialog.open
    /\ \E r \in {handleSave(dialog, hook, Quiet(browser))} :
           hook' = r.hook /\ browser' = r.browser /\ dialog' = r.dialog
    /\ UNCHANGED <<tables, zone, pc, call, ret, form>>

DialogCancel ==
    /\ dialog.open
    /\ dialog' = handleCancel(dialog, hook)
    /\ UNCHANGED <<tables, zone, pc, call, ret, browser, hook, form>>

DialogReset ==
    /\ dialog.open
    /\ \E r \in {handleReset(dialog, hook, Quiet(browser))} :
           hook' = r.hook /\ browser' = r.browser /\ dialog' = r.dialog
    /\ UNCHANGED <<tables, zone, pc, call, ret, form>>

\* what is typed or pasted into the value field
FormTexts == {<<>>, <<"5">>, <<"2", ".", "5">>, <<"a", "b", "c">>, <<"1", "2", "a", "b", "c">>, <<"I", "n", "f", "i", "n", "i", "t", "y">>}

\* the default units a form is given: the category's default and those the
\* dialog saves
DefaultUnitInputs(categoryId) ==
    {Property(DEFAULT_UNIT_PREFERENCES, categoryId).s}
      \cup {UnitsOffered(dialogCategories, categoryId)[j] :
                j \in 1..Len(UnitsOffered(dialogCategories, categoryId)) \cap 1..MaxPick}

FormMount ==
    /\ ~form.mounted
    /\ \E c \in ConversionCategories :
           form' = ResetForm([NoForm EXCEPT !.mounted = TRUE, !.category = c],
                             Property(DEFAULT_UNIT_PREFERENCES, c).s)
    /\ UNCHANGED <<tables, zone, pc, call, ret, browser, hook, dialog>>

FormType ==
    /\ form.mounted
    /\ \E text \in FormTexts : form' = onChange(form, text)
    /\ UNCHANGED <<tables, zone, pc, call, ret, browser, hook, dialog>>

FormSelectUnit ==
    /\ form.mounted
    /\ \E j \in 1..Len(UnitsOffered(categories, form.category)) :
           form' = handleUnitChange(form, UnitsOffered(categories, form.category)[j])
    /\ UNCHANGED <<tables, zone, pc, call, ret, browser, hook, dialog>>

FormEnter ==
    /\ form.mounted
    /\ form' = unitFormHandleSubmit(form)
    /\ UNCHANGED <<tables, zone, pc, call, ret, browser, hook, dialog>>

FormDefaultUnitChanges ==
    /\ form.mounted
    /\ \E d \in DefaultUnitInputs(form.category) :
           /\ d # form.defaultUnit
           /\ form' = ResetForm(form, d)
    /\ UNCHANGED <<tables, zone, pc, call, ret, browser, hook, dialog>>

\* the caller takes the outcome; the next call starts from the same tables
Return ==
    /\ pc = "returned"
    /\ pc' = "idle"
    /\ call' = NoCall
    /\ ret' = Returned(<<>>)
    /\ UNCHANGED env

Init ==
    /\ volumeUnits = volumeUnitsTable
    /\ lengthUnits = lengthUnitsTable
    /\ weightUnits = weightUnitsTable
    /\ temperatureUnits = temperatureUnitsTable
    /\ zone \in Zones
    /\ pc = "idle"
    /\ call = NoCall
    /\ ret = Returned(<<>>)
    /\ browser = NoBrowser
    /\ hook = Unmounted
    /\ dialog = ClosedDialog
    /\ form = NoForm

\* the numeric formatter
NextFormat == CallFormatNumber \/ Return

SpecFormat == Init /\ [][NextFormat]_vars

\* the unit engines
NextUnits ==
    \/ CallConvertVolume
    \/ CallConvertLength
    \/ CallConvertWeight
    \/ CallConvertTemperature
    \/ CallGetVolumeUnitNames
    \/ CallGetLengthUnitNames
    \/ CallGetWeightUnitNames
    \/ CallGetTemperatureUnitNames
    \/ CallGetUnitIdFromNameVolume
    \/ CallGetUnitIdFromNameLength
    \/ CallGetUnitIdFromNameWeight
    \/ CallGetUnitIdFromNameTemperature
    \/ ApplyRoundTrip
    \/ ApplyTemperatureFormulas
    \/ Return

SpecUnits == Init /\ [][NextUnits]_vars

\* the time engine and the time form
NextTime ==
    \/ CallGetCurrentTime
    \/ CallFromUnixSeconds
    \/ CallFromUnixMilliseconds
    \/ CallFromLocalDatetime
    \/ CallFromUTCDatetime
    \/ CallIsValidUnixSeconds
    \/ CallIsValidUnixMilliseconds
    \/ CallIsValidDatetime
    \/ SubmitTimeForm
    \/ CallFormatLocalDatetimeDisplay
    \/ Return

SpecTime == Init /\ [][NextTime]_vars

\* the date form
NextDates == DateFormDifference \/ DateFormOffset \/ DateFormOffsetThenDifference \/ Return

SpecDates == Init /\ [][NextDates]_vars

\* the numbers form
NextNumbers ==
    \/ CallCompare
    \/ CallPercentOf
    \/ CallPercentOfThenCompare
    \/ SubmitCompareForm
    \/ SubmitPercentForm
    \/ Return

SpecNumbers == Init /\ [][NextNumbers]_vars

\* the page opened in one time zone
InitPage == Init /\ zone.id = "UTC"

\* the preferences hook
NextPreferences ==
    \/ StorageHolds
    \/ Mount
    \/ CallUpdatePreferences
    \/ CallResetPreferences
    \/ Render

SpecPreferences == InitPage /\ [][NextPreferences]_vars

\* the preferences dialog, on a page opened with storage working
DialogStorage ==
    {NoEntry,
     Entry(StoredPreferences(<<[key |-> <<"l", "e", "n", "g", "t", "h">>, val |-> JsonString(<<"S", "t", "e", "p", "s", " ", "(", "W", "a", "l", "k", "i", "n", "g", ")">>)]>>)),
     Entry(StoredPreferences(<<[key |-> <<"w", "e", "i", "g", "h", "t">>, val |-> JsonString(<<"P", "o", "u", "n", "d", "s">>)]>>)),
     Entry(StoredPreferences(<<[key |-> <<"l", "e", "n", "g", "t", "h">>, val |-> JsonString(<<"F", "u", "r", "l", "o", "n", "g", "s">>)]>>)),
     Entry(StoredPreferences(<<[key |-> <<"v", "o", "l", "u", "m", "e">>, val |-> JsonNull]>>))}

InitDialog ==
    /\ volumeUnits = volumeUnitsTable
    /\ lengthUnits = lengthUnitsTable
    /\ weightUnits = weightUnitsTable
    /\ temperatureUnits = temperatureUnitsTable
    /\ zone \in Zones /\ zone.id = "UTC"
    /\ pc = "idle"
    /\ call = NoCall
    /\ ret = Returned(<<>>)
    /\ browser \in {[mode |-> "ok", storage |-> entry, console |-> <<>>] : entry \in DialogStorage}
    /\ hook = Unmounted
    /\ dialog = ClosedDialog
    /\ form = NoForm

NextDialog ==
    \/ Mount
    \/ OpenDialog
    \/ DialogSelect
    \/ DialogSave
    \/ DialogCancel
    \/ DialogReset

SpecDialog == InitDialog /\ [][NextDialog]_vars

\* a unit converter form
NextForm ==
    \/ FormMount
    \/ FormType
    \/ FormSelectUnit
    \/ FormEnter
    \/ FormDefaultUnitChanges

SpecForm == InitPage /\ [][NextForm]_vars

\* the whole program
Next == NextFormat \/ NextUnits \/ NextTime \/ NextDates \/ NextNumbers
          \/ NextPreferences \/ NextDialog \/ NextForm

Spec == Init /\ [][Next]_vars

(***************************************************************************)
(* Properties.                                                             *)
(***************************************************************************)
\* the table a convert function reads
ConvertFns == {"convertVolume", "convertLength", "convertWeight", "convertTemperature"}

UnitsOf(fn) ==
    IF fn = "convertVolume" THEN volumeUnits
    ELSE IF fn = "convertLength" THEN lengthUnits
    ELSE IF fn = "convertWeight" THEN weightUnits
    ELSE temperatureUnits

Converted == pc = "returned" /\ call.fn \in ConvertFns /\ ~ret.threw

\* C1: a conversion from a unit of the table returns one result for every
\* other unit of the table: as many results as the table has units less one,
\* with distinct unit ids, none of them the source unit
C1_AllOtherUnits ==
    Converted =>
        /\ Len(ret.val) = Len(UnitsOf(call.fn)) - 1
        /\ \A i, j \in 1..Len(ret.val) : i # j => ret.val[i].unitId # ret.val[j].unitId
        /\ \A i \in 1..Len(ret.val) : ret.val[i].unitId # call.unit
        /\ \A i \in 1..Len(ret.val) : HasOwn(UnitsOf(call.fn), ret.val[i].unitId)

C1_Witness ==
    /\ Converted /\ call.fn = "convertWeight" /\ call.unit = "kilogram"
    /\ Len(ret.val) = 6

\* C2: a conversion from an id that is no unit id of the table returns no
\* result and fails with the message 'Invalid unit ID: ' followed by the id,
\* also when the id names a property every object inherits
C2_UnknownUnitFails ==
    pc = "returned" /\ call.fn \in ConvertFns /\ ~HasOwn(UnitsOf(call.fn), call.unit) =>
        /\ ret.threw
        /\ ret.err.message = "Invalid unit ID: " \o call.unit

\* the text of a formatted number taken apart: sign, integer part, fraction
FormatCalled == pc = "returned" /\ call.fn = "formatNumber"

Unsigned(txt) == IF txt # <<>> /\ txt[1] = "-" THEN Tail(txt) ELSE txt

PointAt(txt) == IF \E i \in 1..Len(txt) : txt[i] = "." THEN CHOOSE i \in 1..Len(txt) : txt[i] = "." ELSE 0

IntegerPart(txt) == IF PointAt(txt) = 0 THEN Unsigned(txt) ELSE SubSeq(Unsigned(txt), 1, PointAt(Unsigned(txt)) - 1)

FractionPart(txt) == IF PointAt(txt) = 0 THEN <<>> ELSE SubSeq(txt, PointAt(txt) + 1, Len(txt))

\* digits with a comma before every group of three from the right, no leading zero
WellGrouped(int) ==
    /\ Len(int) >= 1
    /\ \A i \in 1..Len(int) :
          IF (Len(int) - i) % 4 = 3 THEN int[i] = "," ELSE int[i] \in Digits
    /\ int[1] # ","
    /\ (int[1] = "0" => Len(int) = 1)

\* the natural number a text of digits and commas denotes
RECURSIVE TextValue(_, _)
TextValue(txt, acc) ==
    IF txt = <<>> THEN acc
    ELSE IF txt[1] = "," THEN TextValue(Tail(txt), acc)
    ELSE TextValue(Tail(txt), BAdd(BMulSmall(acc, 10), BFromNat(DigitVal(txt[1]))))

\* the size of a finite number with an integer value
IntegerSize(v) == IF v.e >= 0 THEN BShl(v.m, v.e) ELSE BShr(v.m, -v.e)

\* C3: a number within 0.0001 of an integer is rendered as that integer:
\* digits grouped by commas in threes, no decimal point, and a leading '-'
\* exactly when the integer is negative (a number below 0.0001 in size is '0')
C3_WholeAsInteger ==
    FormatCalled /\ IsFinite(call.value) /\ isWholeNumber(call.value) =>
        /\ PointAt(ret.val) = 0
        /\ WellGrouped(Unsigned(ret.val))
        /\ TextValue(Unsigned(ret.val), <<>>) = IntegerSize(MathRound(call.value))
        /\ (ret.val[1] = "-") = (MathRound(call.value).s = 1 /\ ~IsZero(MathRound(call.value)))

\* h hundredths is a nearest count of hundredths to the size of x: |100 |x| - h| <= 1/2
NearestHundredths(x, h) ==
    IF x.e >= 0 THEN h = BMulSmall(BShl(x.m, x.e), 100)
    ELSE LET a == BMulSmall(x.m, 200)
             b == BShl(h, 1 - x.e)
         IN  BCmp(IF BCmp(a, b) >= 0 THEN BSub(a, b) ELSE BSub(b, a), BShl(<<1>>, -x.e)) <= 0

\* C4: a finite number not within 0.0001 of an integer is rendered with
\* exactly two digits after the decimal point, the value rounded to
\* hundredths, the integer part grouped by commas in threes (also when the
\* rounding carries into a new group), and '-' exactly for a negative number
C4_TwoDecimals ==
    FormatCalled /\ IsFinite(call.value) /\ ~isWholeNumber(call.value) =>
        /\ PointAt(ret.val) # 0
        /\ Len(FractionPart(ret.val)) = 2
        /\ \A i \in 1..Len(FractionPart(ret.val)) : FractionPart(ret.val)[i] \in Digits
        /\ WellGrouped(IntegerPart(ret.val))
        /\ (ret.val[1] = "-") = (call.value.s = 1)
        /\ NearestHundredths(call.value, TextValue(IntegerPart(ret.val) \o FractionPart(ret.val), <<>>))

C4_Witness ==
    /\ FormatCalled /\ call.value = Dec(99999500, 5)
    /\ ret.val = <<"1", ",", "0", "0", "0", ".", "0", "0">>

RoundTrip == pc = "returned" /\ call.fn = "roundTrip"

BaseUnits == {"liter", "meter", "kilogram"}

\* a is within 10^-9 of b, relative to b
Within(a, b) == DLe(MathAbs(DSub(a, b)), DMul(Dec(1, 9), MathAbs(b)))

\* zero, or between 2^-996 and 2^996 in size
MidRange(v) == IsFinite(v) /\ (IsZero(v) \/ (DLe(Tiny, MathAbs(v)) /\ DLe(MathAbs(v), Huge)))

\* C5 as claimed: a value taken to the base unit and back is the value, for
\* every unit and every value
C5_RoundTripExact == RoundTrip => ret.val.back = call.args[3]

\* C5: a value that is zero or between 2^-996 and 2^996 in size, taken to
\* the base unit and back, is within 10^-9 of itself, relative to its size;
\* the base unit's toBase and fromBase return their argument
C5_RoundTripClose ==
    RoundTrip =>
        /\ MidRange(call.args[3]) => Within(ret.val.back, call.args[3])
        /\ call.args[2] \in BaseUnits => ret.val.base = call.args[3] /\ ret.val.back = call.args[3]

C5_Witness ==
    /\ RoundTrip /\ call.args[2] \notin BaseUnits /\ MidRange(call.args[3])
    /\ ret.val.back # call.args[3]
    /\ Within(ret.val.back, call.args[3])

TemperatureConverted == pc = "returned" /\ call.fn = "convertTemperature" /\ ~ret.threw

\* the value of the result for a scale
ValueFor(results, unitId) == results[CHOOSE i \in 1..Len(results) : results[i].unitId = unitId].value

HasResult(results, unitId) == \E i \in 1..Len(results) : results[i].unitId = unitId

\* C6: a temperature conversion returns, for each of the two other scales,
\* the formatted value of the pairwise formula: C*9/5+32, C+273.15,
\* (F-32)*5/9, (F-32)*5/9+273.15, K-273.15, (K-273.15)*9/5+32; 0 celsius is
\* '32' fahrenheit and '273.15' kelvin, 100 celsius is '212' fahrenheit
C6_TemperatureFormulas ==
    TemperatureConverted =>
        LET v == call.value
            r == ret.val
        IN  /\ call.unit = "celsius" =>
                /\ HasResult(r, "fahrenheit") /\ HasResult(r, "kelvin")
                /\ ValueFor(r, "fahrenheit")
                     = formatNumber(DAdd(DDiv(DMul(v, FromInt(9)), FromInt(5)), FromInt(32)))
                /\ ValueFor(r, "kelvin") = formatNumber(DAdd(v, Dec(27315, 2)))
                /\ v = FromInt(0) => /\ ValueFor(r, "fahrenheit") = <<"3", "2">>
                                     /\ ValueFor(r, "kelvin") = <<"2", "7", "3", ".", "1", "5">>
                /\ v = FromInt(100) => ValueFor(r, "fahrenheit") = <<"2", "1", "2">>
            /\ call.unit = "fahrenheit" =>
                /\ HasResult(r, "celsius") /\ HasResult(r, "kelvin")
                /\ ValueFor(r, "celsius")
                     = formatNumber(DDiv(DMul(DSub(v, FromInt(32)), FromInt(5)), FromInt(9)))
                /\ ValueFor(r, "kelvin")
                     = formatNumber(DAdd(DDiv(DMul(DSub(v, FromInt(32)), FromInt(5)), FromInt(9)),
                                         Dec(27315, 2)))
            /\ call.unit = "kelvin" =>
                /\ HasResult(r, "celsius") /\ HasResult(r, "fahrenheit")
                /\ ValueFor(r, "celsius") = formatNumber(DSub(v, Dec(27315, 2)))
                /\ ValueFor(r, "fahrenheit")
                     = formatNumber(DAdd(DDiv(DMul(DSub(v, Dec(27315, 2)), FromInt(9)), FromInt(5)),
                                         FromInt(32)))

C6_Witness ==
    /\ TemperatureConverted /\ call.unit = "celsius" /\ call.value = FromInt(100)
    /\ ValueFor(ret.val, "fahrenheit") = <<"2", "1", "2">>
    /\ ValueFor(ret.val, "kelvin") = <<"3", "7", "3", ".", "1", "5">>

\* the units of a table other than the unit of an id, in the table's order
OthersOf(units, id) ==
    LET Other(unit) == unit.id # id
    IN  SelectSeq(ObjectValues(units), Other)

\* the names of a table without the name of the unit of an id
NamesWithout(units, id) ==
    LET Other(name) == \A i \in 1..Len(units) : units[i].val.id = id => units[i].val.name # name
    IN  SelectSeq(UnitNames(units), Other)

\* C7: the results of a conversion from a unit of the table are in the
\* table's declared order with that unit removed, each with the id, name and
\* symbol of its table entry; their names are the category's unit names
\* with the source unit's name deleted
C7_TableOrder ==
    Converted =>
        LET others == OthersOf(UnitsOf(call.fn), call.unit)
        IN  /\ Len(ret.val) = Len(others)
            /\ \A i \in 1..Len(ret.val) :
                  /\ ret.val[i].unitId = others[i].id
                  /\ ret.val[i].unitName = others[i].name
                  /\ ret.val[i].symbol = others[i].symbol
            /\ [i \in 1..Len(ret.val) |-> ret.val[i].unitName]
                 = NamesWithout(UnitsOf(call.fn), call.unit)

C7_Witness ==
    /\ Converted /\ call.fn = "convertTemperature" /\ call.unit = "kelvin"
    /\ ret.val[1].unitId = "celsius" /\ ret.val[1].symbol = <<"U+00B0", "C">>
    /\ ret.val[2].unitName = <<"F", "a", "h", "r", "e", "n", "h", "e", "i", "t">>

LookupFns == {"getUnitIdFromNameVolume", "getUnitIdFromNameLength",
              "getUnitIdFromNameWeight", "getUnitIdFromNameTemperature"}

LookedUpIn(fn) ==
    IF fn = "getUnitIdFromNameVolume" THEN volumeUnits
    ELSE IF fn = "getUnitIdFromNameLength" THEN lengthUnits
    ELSE IF fn = "getUnitIdFromNameWeight" THEN weightUnits
    ELSE temperatureUnits

LookedUp == pc = "returned" /\ call.fn \in LookupFns

\* two names equal but for the case of their letters
SameButCase(a, b) ==
    /\ Len(a) = Len(b)
    /\ \A i \in 1..Len(a) : a[i] = b[i] \/ a[i] = FlipChar(b[i])

\* C8: getUnitIdFromName returns the id of the unit whose name is the given
\* name in any mix of upper and lower case, and undefined when no unit has
\* that name; an id returned is a key of the table and the id of its entry;
\* ids are the keys, and no two units share an id or a name but for case
C8_NameLookup ==
    LookedUp =>
        LET units == LookedUpIn(call.fn)
        IN  /\ \A i \in 1..Len(units) :
                  SameButCase(call.name, units[i].val.name) => ret.val = Str(units[i].val.id)
            /\ (\A i \in 1..Len(units) : ~SameButCase(call.name, units[i].val.name))
                  => ret.val = Undefined
            /\ ret.val # Undefined =>
                  /\ HasOwn(units, ret.val.value)
                  /\ Get(units, ret.val.value).unit.id = ret.val.value
            /\ \A i \in 1..Len(units) : units[i].key = units[i].val.id
            /\ \A i, j \in 1..Len(units) :
                  i # j => /\ units[i].val.id # units[j].val.id
                           /\ ~SameButCase(units[i].val.name, units[j].val.name)

C8_Witness ==
    /\ LookedUp /\ call.fn = "getUnitIdFromNameLength"
    /\ call.name = <<"M", "E", "t", "e", "r", "s">>
    /\ ret.val = Str("meter")

\* C9: the length table has nine units, Steps (Walking) among them, and a
\* conversion from meters returns eight results
C9_NineLengthUnits ==
    pc = "returned" /\ call.fn = "convertLength" /\ call.unit = "meter" =>
        /\ Len(lengthUnits) = 9
        /\ \E i \in 1..Len(lengthUnits) :
              lengthUnits[i].val.name
                = <<"S", "t", "e", "p", "s", " ", "(", "W", "a", "l", "k", "i", "n", "g", ")">>
        /\ ~ret.threw /\ Len(ret.val) = 8

TimeFns == {"getCurrentTime", "fromUnixSeconds", "fromUnixMilliseconds",
            "fromLocalDatetime", "fromUTCDatetime"}

TimeConverted == pc = "returned" /\ call.fn \in TimeFns /\ ~ret.threw

\* a number with no fraction
IsInteger(v) == IsFinite(v) /\ (IsZero(v) \/ v.e >= 0 \/ BLowZero(v.m, -v.e))

\* s is the greatest whole number of seconds not above ms milliseconds:
\* an integer with 1000 s <= ms < 1000 s + 1000
FloorOfThousandth(s, ms) ==
    /\ IsInteger(s)
    /\ DLe(DMul(s, FromInt(1000)), ms)
    /\ DLt(ms, DAdd(DMul(s, FromInt(1000)), FromInt(1000)))

\* C10: every result of the time engine has unixSeconds equal to
\* unixMilliseconds / 1000 rounded toward negative infinity (-1 ms is -1 s)
C10_SecondsFloor ==
    TimeConverted =>
        /\ FloorOfThousandth(ret.val.unixSeconds, ret.val.unixMilliseconds)
        /\ ret.val.unixMilliseconds = FromInt(-1) => ret.val.unixSeconds = FromInt(-1)

C10_Witness ==
    /\ TimeConverted /\ call.fn = "fromUnixMilliseconds"
    /\ ret.val.unixMilliseconds = FromInt(-1) /\ ret.val.unixSeconds = FromInt(-1)

\* the numbers the validators accept
AcceptedSeconds(v) == IsFinite(v) /\ DLe(Zero(0), v) /\ DLe(v, MaxUnixSeconds)

AcceptedMilliseconds(v) == IsFinite(v) /\ DLe(Zero(0), v) /\ DLe(v, MaxUnixMilliseconds)

\* C11 as claimed: every number of seconds the validator accepts comes back
\* as unixSeconds, with unixMilliseconds a thousand times it, and every
\* number of milliseconds the validator accepts comes back as unixMilliseconds
C11_AcceptedComesBack ==
    /\ pc = "returned" /\ call.fn = "fromUnixSeconds" /\ AcceptedSeconds(call.value) =>
          /\ ~ret.threw
          /\ DEq(ret.val.unixSeconds, call.value)
          /\ DEq(ret.val.unixMilliseconds, DMul(call.value, FromInt(1000)))
    /\ pc = "returned" /\ call.fn = "fromUnixMilliseconds" /\ AcceptedMilliseconds(call.value) =>
          /\ ~ret.threw
          /\ DEq(ret.val.unixMilliseconds, call.value)

\* C11: every whole number of seconds the validator accepts comes back as
\* unixSeconds, with unixMilliseconds a thousand times it, and every whole
\* number of milliseconds the validator accepts comes back as unixMilliseconds
C11_AcceptedIntegerComesBack ==
    /\ pc = "returned" /\ call.fn = "fromUnixSeconds"
          /\ AcceptedSeconds(call.value) /\ IsInteger(call.value) =>
          /\ ~ret.threw
          /\ DEq(ret.val.unixSeconds, call.value)
          /\ DEq(ret.val.unixMilliseconds, DMul(call.value, FromInt(1000)))
    /\ pc = "returned" /\ call.fn = "fromUnixMilliseconds"
          /\ AcceptedMilliseconds(call.value) /\ IsInteger(call.value) =>
          /\ ~ret.threw
          /\ DEq(ret.val.unixMilliseconds, call.value)

C11_Witness ==
    /\ pc = "returned" /\ call.fn = "fromUnixSeconds" /\ call.value = MaxUnixSeconds
    /\ ~ret.threw
    /\ ret.val.unixSeconds = MaxUnixSeconds
    /\ ret.val.unixMilliseconds = MaxUnixMilliseconds

\* every character of a text is one of a set
TextOver(txt, chars) == txt # <<>> /\ \A i \in 1..Len(txt) : txt[i] \in chars

\* the six fields of a result all there and describing an instant
SixValidFields(r) ==
    /\ IsInteger(r.unixMilliseconds)
    /\ DLe(MathAbs(r.unixMilliseconds), MaxTimeValue)
    /\ FloorOfThousandth(r.unixSeconds, r.unixMilliseconds)
    /\ TextOver(r.localDatetime, Digits \cup {"-", "T", ":"})
    /\ Len(r.utcDatetime) >= 24 /\ TextOver(r.utcDatetime, Digits \cup {"-", "+", "T", ":", ".", "Z"})
    /\ r.utcDatetime[Len(r.utcDatetime)] = "Z"
    /\ r.timezone # <<>>
    /\ r.isDST \in BOOLEAN

\* the input of a call of the time engine denotes no instant
NoInstant ==
    IF call.fn = "fromUnixSeconds"
    THEN ~IsFinite(call.value) \/ ~DLe(MathAbs(DMul(call.value, FromInt(1000))), MaxTimeValue)
    ELSE IF call.fn \in {"fromUnixMilliseconds", "getCurrentTime"}
    THEN ~IsFinite(call.value) \/ ~DLe(MathAbs(call.value), MaxTimeValue)
    ELSE IsNaN(DateParse(zone, call.name))

\* C12: a call of the time engine returns six fields that describe one
\* valid instant, or fails with an error; an input that denotes no instant
\* (text that is no datetime, NaN, a number out of range) fails with an
\* error, and the time form then shows an error and no result
C12_ResultOrError ==
    /\ pc = "returned" /\ call.fn \in TimeFns =>
          /\ ret.threw => ret.val = <<>> /\ ret.err.name # ""
          /\ ~ret.threw => SixValidFields(ret.val)
          /\ NoInstant => ret.threw
    /\ pc = "returned" /\ call.fn = "handleSubmit" =>
          /\ ret.val.converted => ret.val.error = "" /\ SixValidFields(ret.val.results)
          /\ ~ret.val.converted => ret.val.error # "" /\ ret.val.results = <<>>

C12_Witness ==
    /\ pc = "returned" /\ call.fn = "fromLocalDatetime"
    /\ call.name = <<"n", "o", "t", " ", "a", " ", "d", "a", "t", "e">>
    /\ ret.threw /\ ret.err.name = "RangeError"

\* a text with a character that is no white space
NonBlank(text) == \E i \in 1..Len(text) : text[i] \notin WhiteSpace

\* C13: a validator is true exactly for a text that is not empty or blank
\* and denotes a finite number from 0 to 4102444800 (seconds) or to
\* 4102444800000 (milliseconds), bounds included; and the time form
\* converts every text a validator accepts, without error, to the instant
\* the text denotes
C13_ValidatorsAndForm ==
    /\ pc = "returned" /\ call.fn = "isValidUnixSeconds" =>
          ret.val = (NonBlank(call.name) /\ AcceptedSeconds(Number(call.name)))
    /\ pc = "returned" /\ call.fn = "isValidUnixMilliseconds" =>
          ret.val = (NonBlank(call.name) /\ AcceptedMilliseconds(Number(call.name)))
    /\ pc = "returned" /\ call.fn = "handleSubmit" /\ call.unit = "unix-seconds"
          /\ isValidUnixSeconds(call.name) =>
          /\ ret.val.converted
          /\ ret.val.results.unixMilliseconds
               = NewDateNumber(DMul(Number(call.name), FromInt(1000)))
    /\ pc = "returned" /\ call.fn = "handleSubmit" /\ call.unit = "unix-milliseconds"
          /\ isValidUnixMilliseconds(call.name) =>
          /\ ret.val.converted
          /\ ret.val.results.unixMilliseconds = NewDateNumber(Number(call.name))

\* minutes behind UTC at a UTC instant <<day, ms>>
Behind(dt) == -OffsetAt(zone, dt)

\* local midnight of the first day of a month of a year
FirstOf(year, month) == UTCDayTime(zone, <<DaysFromCivil(year, month, 1), 0>>)

LocalYear(dt) == CivilFromDays(LocalDayTime(zone, dt)[1]).year

EndsWith(txt, tail) == Len(txt) >= Len(tail) /\ SubSeq(txt, Len(txt) - Len(tail) + 1, Len(txt)) = tail

\* C14: isDST is true exactly when the instant's offset behind UTC is less
\* than the larger of the offsets at January 1 and July 1 of the instant's
\* local year, so it is false where the offset is constant during the year;
\* the display appends '(DST)' when isDST is true and '(STD)' otherwise
C14_DSTFlag ==
    /\ TimeConverted =>
          LET dt == DayTime(ret.val.unixMilliseconds)
          IN  /\ ret.val.isDST
                   = (Behind(dt) < Max(Behind(FirstOf(LocalYear(dt), 1)), Behind(FirstOf(LocalYear(dt), 7))))
              /\ zone.rule = "none" => ~ret.val.isDST
    /\ pc = "returned" /\ call.fn = "formatLocalDatetimeDisplay" /\ ~ret.threw =>
          /\ call.args[3] => EndsWith(ret.val, call.args[2] \o <<" ", "(", "D", "S", "T", ")">>)
          /\ ~call.args[3] => EndsWith(ret.val, call.args[2] \o <<" ", "(", "S", "T", "D", ")">>)

\* the local calendar day of a time value, counted from 1970-01-01
LocalDay(t) == LocalDayTime(zone, DayTime(t))[1]

IsDate(t) == t # Null /\ ~IsNaN(t)

Difference == pc = "returned" /\ call.fn = "dateDifference"

\* C15: for two dates at local midnight, the day difference is the signed
\* number of calendar days from the first to the second: positive when the
\* second is later, negative when earlier, 0 exactly when they are the same
\* date (shown as 'Same day'), 1 for consecutive dates, also across the
\* 23-hour and 25-hour days of a daylight saving transition
C15_CalendarDays ==
    Difference /\ IsDate(call.args[1]) /\ IsDate(call.args[2]) =>
        LET days == LocalDay(call.args[2]) - LocalDay(call.args[1])
        IN  /\ ret.val.result.daysDiff = FromInt(days)
            /\ ret.val.display.shown
            /\ ret.val.display.sameDay = (call.args[1] = call.args[2])
            /\ ret.val.display.sameDay = (days = 0)
            /\ ret.val.display.plus = (days > 0)
            /\ ret.val.display.plural = (days \notin {1, -1})

C15_Witness ==
    /\ Difference /\ zone.id = "America/New_York"
    /\ call.args[1] = MakeDate(UTCDayTime(zone, <<DaysFromCivil(2025, 3, 9), 0>>))
    /\ call.args[2] = MakeDate(UTCDayTime(zone, <<DaysFromCivil(2025, 3, 10), 0>>))
    /\ DSub(call.args[2], call.args[1]) = FromInt(23 * 3600000)
    /\ ret.val.result.daysDiff = FromInt(1)

Offset == pc = "returned" /\ call.fn = "dateOffset"

\* the whole number of days typed
TypedDays == DToInt(Number(call.args[2]))

WholeDaysTyped == IsInteger(Number(call.args[2])) /\ DLt(MathAbs(Number(call.args[2])), FromInt(2^30))

\* the end date is the date n days from the start date at the same local
\* time of day, and the line shows that date and the count n
EndsAfter(n) ==
    /\ IsDate(ret.val.result.endDate)
    /\ LocalDay(ret.val.result.endDate) = LocalDay(call.args[1]) + n
    /\ LocalDayTime(zone, DayTime(ret.val.result.endDate))[2]
         = LocalDayTime(zone, DayTime(call.args[1]))[2]
    /\ ret.val.display.shown
    /\ ret.val.display.date = <<CivilFromDays(LocalDay(call.args[1]) + n)>>
    /\ ret.val.display.count = FromInt(n)

\* C16 as claimed: for every start date and every whole number of days,
\* the end date is the date that many calendar days from the start date at
\* the same local time of day, and the count shown is the days added
C16_EveryWholeDays ==
    Offset /\ IsDate(call.args[1]) /\ WholeDaysTyped => EndsAfter(TypedDays)

\* days counted from 1970-01-01 that a Date can hold in every zone
DateRange == -99999999..99999999

\* C16: for every start date and every whole number of days that leads to
\* a date a Date can hold, the end date is the date that many calendar days
\* from the start date at the same local time of day, across month ends,
\* year ends and daylight saving transitions, and the count shown is the
\* days added
C16_WholeDaysInRange ==
    Offset /\ IsDate(call.args[1]) /\ WholeDaysTyped
           /\ LocalDay(call.args[1]) + TypedDays \in DateRange
        => EndsAfter(TypedDays)

C16_Witness ==
    /\ Offset /\ zone.id = "America/New_York"
    /\ call.args[1] = MakeDate(UTCDayTime(zone, <<DaysFromCivil(2025, 3, 8), 0>>))
    /\ call.args[2] = <<"2">>
    /\ ret.val.result.endDate = MakeDate(UTCDayTime(zone, <<DaysFromCivil(2025, 3, 10), 0>>))
    /\ DSub(ret.val.result.endDate, call.args[1]) = FromInt(47 * 3600000)

Compared == pc = "returned" /\ call.fn = "Compare"

\* the double 2^n
TwoTo(n) == Fin(0, BShl(<<1>>, MantBits - 1), n - (MantBits - 1))

\* diff is second - first, and percent is diff / first * 100, or 0 when
\* first is 0
CompareFormulas(first, second, r) ==
    /\ r.diff = DSub(second, first)
    /\ DEq(first, Zero(0)) => r.percent = Zero(0)
    /\ ~DEq(first, Zero(0)) => r.percent = DMul(DDiv(DSub(second, first), first), FromInt(100))

\* C17 as claimed: for finite first and second, diff and percent follow the
\* formulas with the zero guard, and neither is NaN or infinite
C17_AlwaysFinite ==
    Compared /\ IsFinite(call.args[1]) /\ IsFinite(call.args[2])
        => /\ CompareFormulas(call.args[1], call.args[2], ret.val)
           /\ IsFinite(ret.val.diff) /\ IsFinite(ret.val.percent)

\* C17: for finite first and second, diff and percent follow the formulas
\* with the zero guard and neither is NaN; diff is infinite only when first
\* or second is at least 2^1023 in size, and percent only when diff is
\* infinite or more than 2^1000 times the size of first
C17_NeverNaN ==
    Compared /\ IsFinite(call.args[1]) /\ IsFinite(call.args[2])
        => /\ CompareFormulas(call.args[1], call.args[2], ret.val)
           /\ ~IsNaN(ret.val.diff) /\ ~IsNaN(ret.val.percent)
           /\ ~IsFinite(ret.val.diff)
                => \/ DLe(TwoTo(1023), MathAbs(call.args[1]))
                   \/ DLe(TwoTo(1023), MathAbs(call.args[2]))
           /\ ~IsFinite(ret.val.percent)
                => \/ ~IsFinite(ret.val.diff)
                   \/ DLt(DMul(MathAbs(call.args[1]), TwoTo(1000)), MathAbs(ret.val.diff))

C17_Witness ==
    /\ Compared
    /\ call.args = <<FromInt(200), FromInt(205)>>
    /\ ret.val = [diff |-> FromInt(5), percent |-> Dec(25, 1)]

NumbersSubmitted ==
    pc = "returned" /\ call.fn \in {"submitCompare", "submitPercent"} /\ ret.val.submitted

\* the handler's number for the text is finite and is the number the text
\* denotes
ReadAsDenoted(text) == IsFinite(parseFloat(text)) /\ parseFloat(text) = Number(text)

\* the numbers a result displays
Displayed(fn, result) == IF fn = "submitCompare" THEN {result.diff, result.percent} ELSE {result}

\* C18: every text the validation of the numbers form accepts is read by the
\* handler as a finite number equal to the number the text denotes, and no
\* displayed result is NaN or infinite
C18_AcceptedTextsAreNumbers ==
    NumbersSubmitted
        => /\ ReadAsDenoted(call.args[1]) /\ ReadAsDenoted(call.args[2])
           /\ \A x \in Displayed(call.fn, ret.val.result) : IsFinite(x)

\* x is less than 0.0001 from an integer, by exact arithmetic on the
\* fraction of x
NearWhole(x) ==
    IF IsZero(x) \/ x.e >= 0 THEN TRUE
    ELSE LET one   == BShl(<<1>>, -x.e)
             frac  == BSub(x.m, BShl(BShr(x.m, -x.e), -x.e))
             dist  == IF BCmp(BShl(frac, 1), one) <= 0 THEN frac ELSE BSub(one, frac)
         IN  BCmp(BShl(dist, -WholeEpsilon.e), BShl(WholeEpsilon.m, -x.e)) < 0

\* C19 as claimed: a result has two decimal places unless its decimal part
\* is zero, and then it has none: the two decimals are never both zero
C19_NeverTwoZeros ==
    FormatCalled /\ IsFinite(call.value) /\ PointAt(ret.val) # 0 =>
        /\ Len(FractionPart(ret.val)) = 2
        /\ FractionPart(ret.val) # <<"0", "0">>

\* C19: a result has no decimal places when it is less than 0.0001 from an
\* integer and two decimal places otherwise; the two decimals are both zero
\* when a number that is not that near to an integer rounds to a whole
\* number of units at two decimals
C19_TwoDecimalsUnlessNearWhole ==
    FormatCalled /\ IsFinite(call.value) =>
        /\ (PointAt(ret.val) = 0) = NearWhole(call.value)
        /\ PointAt(ret.val) # 0 => Len(FractionPart(ret.val)) = 2
        /\ FractionPart(ret.val) = <<"0", "0">>
             => NearestHundredths(call.value, BMulSmall(TextValue(IntegerPart(ret.val), <<>>), 100))

C19_Witness ==
    /\ FormatCalled /\ call.value = Dec(10999, 3)
    /\ ret.val = <<"1", "1", ".", "0", "0">>

UnitFns ==
    ConvertFns \cup LookupFns
      \cup {"getVolumeUnitNames", "getLengthUnitNames", "getWeightUnitNames", "getTemperatureUnitNames"}

\* the outcome of the call made again in the present state
Repeated(fn, value, unit, name) ==
    CASE fn = "convertVolume" -> convertVolume(value, unit)
      [] fn = "convertLength" -> convertLength(value, unit)
      [] fn = "convertWeight" -> convertWeight(value, unit)
      [] fn = "convertTemperature" -> convertTemperature(value, unit)
      [] fn = "getVolumeUnitNames" -> Returned(getVolumeUnitNames)
      [] fn = "getLengthUnitNames" -> Returned(getLengthUnitNames)
      [] fn = "getWeightUnitNames" -> Returned(getWeightUnitNames)
      [] fn = "getTemperatureUnitNames" -> Returned(getTemperatureUnitNames)
      [] fn = "getUnitIdFromNameVolume" -> Returned(getUnitIdFromNameVolume(name))
      [] fn = "getUnitIdFromNameLength" -> Returned(getUnitIdFromNameLength(name))
      [] fn = "getUnitIdFromNameWeight" -> Returned(getUnitIdFromNameWeight(name))
      [] OTHER -> Returned(getUnitIdFromNameTemperature(name))

\* the outcome of a call of a function of the linear tables made on the
\* tables as declared
OnDeclared(fn, value, unit, name) ==
    CASE fn = "convertVolume" -> convertLinear(volumeUnitsTable, value, unit)
      [] fn = "convertLength" -> convertLinear(lengthUnitsTable, value, unit)
      [] fn = "convertWeight" -> convertLinear(weightUnitsTable, value, unit)
      [] fn = "getVolumeUnitNames" -> Returned(UnitNames(volumeUnitsTable))
      [] fn = "getLengthUnitNames" -> Returned(UnitNames(lengthUnitsTable))
      [] fn = "getWeightUnitNames" -> Returned(UnitNames(weightUnitsTable))
      [] fn = "getTemperatureUnitNames" -> Returned(UnitNames(temperatureUnitsTable))
      [] fn = "getUnitIdFromNameVolume" -> Returned(UnitIdFromName(volumeUnitsTable, name))
      [] fn = "getUnitIdFromNameLength" -> Returned(UnitIdFromName(lengthUnitsTable, name))
      [] fn = "getUnitIdFromNameWeight" -> Returned(UnitIdFromName(weightUnitsTable, name))
      [] fn = "getUnitIdFromNameTemperature" -> Returned(UnitIdFromName(temperatureUnitsTable, name))
      [] OTHER -> ret

\* C20: after every call, failing calls included, the four unit tables are
\* as declared, the call made again returns an equal outcome, and the
\* outcome is the one the call has on the tables as declared, whatever
\* calls came before
C20_TablesNeverChange ==
    /\ volumeUnits = volumeUnitsTable
    /\ lengthUnits = lengthUnitsTable
    /\ weightUnits = weightUnitsTable
    /\ temperatureUnits = temperatureUnitsTable
    /\ pc = "returned" /\ call.fn \in UnitFns
         => /\ ret = Repeated(call.fn, call.value, call.unit, call.name)
            /\ ret = OnDeclared(call.fn, call.value, call.unit, call.name)

C20_Witness ==
    /\ pc = "returned" /\ call.fn = "convertLength" /\ call.unit = "constructor"
    /\ ret.threw
    /\ lengthUnits = lengthUnitsTable

\* the value has an own property of this key
HasKey(v, key) == HasProperty(v.props, key)

\* C21: the load on mount ends with isLoaded true, no exception and a value
\* under every category.  With no entry, an empty entry, or an entry that
\* JSON.parse rejects, the preferences are DEFAULT_UNIT_PREFERENCES, and the
\* rejected entry is logged.  With an entry that JSON.parse accepts, every
\* category the parsed value has takes the parsed value's, every other
\* category its default, and nothing is logged.
C21_LoadEndsLoaded ==
    [][Mount =>
        /\ hook'.isLoaded /\ ~hook'.error
        /\ \A c \in CategoryIds :
               HasKey(hook'.preferences, c) /\ Property(hook'.preferences, c).t # "undefined"
        /\ browser.mode # "denied" /\ (~browser.storage.has \/ browser.storage.text = <<>>)
             => hook'.preferences = DEFAULT_UNIT_PREFERENCES /\ browser'.console = <<>>
        /\ browser.mode # "denied" /\ browser.storage.has /\ browser.storage.text # <<>>
             => IF JSONParse(browser.storage.text).threw
                THEN /\ hook'.preferences = DEFAULT_UNIT_PREFERENCES
                     /\ browser'.console = <<"Failed to load unit preferences from localStorage:">>
                ELSE /\ browser'.console = <<>>
                     /\ \A c \in CategoryIds :
                            Property(hook'.preferences, c) =
                              IF HasKey(JSONParse(browser.storage.text).val, c)
                              THEN Property(JSONParse(browser.storage.text).val, c)
                              ELSE Property(DEFAULT_UNIT_PREFERENCES, c)
    ]_vars

C21_Witness ==
    /\ hook.mounted /\ hook.isLoaded /\ hook.queue = <<>>
    /\ browser.storage = Entry(StoredPreferences(<<[key |-> <<"w", "e", "i", "g", "h", "t">>, val |-> JsonString(<<"P", "o", "u", "n", "d", "s">>)]>>))
    /\ Property(hook.preferences, <<"w", "e", "i", "g", "h", "t">>) = JsonString(<<"P", "o", "u", "n", "d", "s">>)
    /\ Property(hook.preferences, <<"l", "e", "n", "g", "t", "h">>) = JsonString(<<"K", "i", "l", "o", "m", "e", "t", "e", "r", "s">>)
    /\ Len(hook.preferences.props) = 7

PropertyKeys(v) == {v.props[i].key : i \in 1..Len(v.props)}

\* the value under a key once the queued calls are applied in order to prev:
\* the last call that names the key decides, a reset names every key
RECURSIVE ValueAfter(_, _, _)
ValueAfter(queue, prev, key) ==
    IF queue = <<>> THEN Property(prev, key)
    ELSE IF queue[Len(queue)].kind = "value" THEN Property(queue[Len(queue)].state, key)
    ELSE IF HasKey(queue[Len(queue)].updates, key) THEN Property(queue[Len(queue)].updates, key)
    ELSE ValueAfter(SubSeq(queue, 1, Len(queue) - 1), prev, key)

\* C22: when the queued calls are applied, every key an updatePreferences
\* call names has the value that call gave, and every other key, category or
\* not, has the value it had before that call: the preferences before the
\* render, or the defaults of a reset queued in between
C22_UpdateSetsNamedOnly ==
    [][Render =>
        /\ ~hook'.error
        /\ \A key \in CategoryIds \cup PropertyKeys(hook.preferences) \cup PropertyKeys(hook'.preferences) :
               Property(hook'.preferences, key) = ValueAfter(hook.queue, hook.preferences, key)
    ]_vars

C22_Witness ==
    /\ hook.mounted /\ hook.queue = <<>>
    /\ Property(hook.preferences, <<"l", "e", "n", "g", "t", "h">>) = JsonString(<<"M", "i", "l", "e", "s">>)
    /\ Property(hook.preferences, <<"v", "o", "l", "u", "m", "e">>) = JsonString(<<"G", "a", "l", "l", "o", "n", "s">>)
    /\ Property(hook.preferences, <<"w", "e", "i", "g", "h", "t">>) = JsonString(<<"O", "u", "n", "c", "e", "s">>)
    /\ Property(hook.preferences, <<"t", "e", "m", "p", "e", "r", "a", "t", "u", "r", "e">>) = JsonString(<<"F", "a", "h", "r", "e", "n", "h", "e", "i", "t">>)
    /\ Property(hook.preferences, <<"t", "i", "m", "e">>) = JsonString(<<"U", "n", "i", "x", " ", "E", "p", "o", "c", "h", " ", "(", "S", "e", "c", "o", "n", "d", "s", ")">>)

\* one message for each updater of the queue that runs at the render
RECURSIVE SaveFailures(_)
SaveFailures(queue) ==
    IF queue = <<>> THEN <<>>
    ELSE (IF queue[1].kind = "updater"
          THEN <<"Failed to save unit preferences to localStorage:">> ELSE <<>>)
           \o SaveFailures(Tail(queue))

\* C23: while setItem throws, every updatePreferences call still queues its
\* change and every render applies the queued changes to the preferences in
\* memory, each failed write is logged once and no exception leaves the
\* hook; while removeItem throws, resetPreferences still queues the defaults
\* and logs the failure; storage keeps what it held
C23_FailedWritesStayInMemory ==
    [][hook.mounted /\ browser.mode \in {"full", "denied"} =>
        /\ ~hook'.error
        /\ Render =>
             /\ \A key \in CategoryIds \cup PropertyKeys(hook.preferences) :
                    Property(hook'.preferences, key) = ValueAfter(hook.queue, hook.preferences, key)
             /\ browser'.console = SaveFailures(hook.queue)
             /\ browser'.storage = browser.storage
        /\ CallUpdatePreferences =>
             /\ Len(hook'.queue) = Len(hook.queue) + 1
             /\ hook'.queue[Len(hook'.queue)].kind = "eager"
                  => /\ browser'.console = <<"Failed to save unit preferences to localStorage:">>
                     /\ \A key \in CategoryIds :
                            Property(hook'.queue[1].state, key) =
                              IF HasKey(hook'.queue[1].updates, key)
                              THEN Property(hook'.queue[1].updates, key)
                              ELSE Property(hook.preferences, key)
             /\ browser'.storage = browser.storage
        /\ CallResetPreferences /\ browser.mode = "denied" =>
             /\ hook'.queue = Append(hook.queue, Update("value", JsonObject(<<>>), DEFAULT_UNIT_PREFERENCES))
             /\ browser'.console = <<"Failed to reset unit preferences:">>
             /\ browser'.storage = browser.storage
    ]_vars

C23_Witness ==
    /\ hook.mounted /\ ~hook.error /\ hook.queue = <<>>
    /\ browser.mode = "full" /\ browser.storage = NoEntry
    /\ browser.console = <<"Failed to save unit preferences to localStorage:">>
    /\ Property(hook.preferences, <<"l", "e", "n", "g", "t", "h">>) = JsonString(<<"M", "i", "l", "e", "s">>)
    /\ Property(hook.preferences, <<"w", "e", "i", "g", "h", "t">>) = JsonString(<<"P", "o", "u", "n", "d", "s">>)
    /\ Property(hook.preferences, <<"v", "o", "l", "u", "m", "e">>) = JsonString(<<"L", "i", "t", "e", "r", "s">>)

\* storage agrees with the preferences in memory: it holds their JSON, or no
\* entry while they are the defaults
StorageAgrees(h, b) ==
    \/ b.storage = Entry(JSONStringify(h.preferences))
    \/ b.storage = NoEntry /\ h.preferences = DEFAULT_UNIT_PREFERENCES

\* C24: with storage working, once the queued updatePreferences and
\* resetPreferences calls are applied, storage agrees with the preferences
\* in memory and a fresh load gives the same preferences
C24_StorageAgreesOnceApplied ==
    [][Render /\ browser.mode = "ok" =>
        /\ StorageAgrees(hook', browser')
        /\ LoadPreferences(browser').preferences = hook'.preferences
    ]_vars

\* C25: every unit name the page offers in a conversion category resolves
\* through the category's getUnitIdFromName to a unit id, and a form that
\* holds an offered unit and a value the schema accepts shows conversion
\* results
C25_OfferedUnitsConvert ==
    /\ \A c \in ConversionCategories :
           \A j \in 1..Len(UnitsOffered(categories, c)) :
               HasUnitId(getUnitIdFunction(c, UnitsOffered(categories, c)[j]))
    /\ form.mounted /\ formSchema(form.value, form.fromUnit) = <<"", "">>
         => form.hasConverted /\ form.results # <<>>

\* the results the form shows
Shown(f) == f.hasConverted /\ f.results # <<>>

\* C26: whenever the form shows results, the input holds a finite number,
\* the selected unit resolves, and the results are the conversion of that
\* number from that unit
C26_ResultsOfCurrentInput ==
    form.mounted /\ Shown(form) =>
        /\ form.value # <<>>
        /\ ~IsNaN(parseFloat(form.value)) /\ IsFinite(parseFloat(form.value))
        /\ HasUnitId(getUnitIdFunction(form.category, form.fromUnit))
        /\ Returned(form.results) =
             convertFunction(form.category, parseFloat(form.value),
                             getUnitIdFunction(form.category, form.fromUnit).value)

\* two doubles within rounding of each other for the input x
WithinRounding(a, b, x) ==
    DLe(MathAbs(DSub(a, b)), DMul(TwoTo(-40), DAdd(FromInt(1), MathAbs(x))))

\* C27: on exact numbers, fahrenheitToCelsius undoes celsiusToFahrenheit,
\* kelvinToCelsius undoes celsiusToKelvin, fahrenheitToKelvin is
\* celsiusToKelvin after fahrenheitToCelsius and kelvinToFahrenheit is
\* celsiusToFahrenheit after kelvinToCelsius; on doubles the two sides of
\* each equation are within rounding of each other
C27_FormulasConsistent ==
    pc = "returned" /\ call.fn = "temperatureFormulas" =>
        /\ ret.val.exact.fToCOfCToF = ret.val.exact.x
        /\ ret.val.exact.kToCOfCToK = ret.val.exact.x
        /\ ret.val.exact.fToK = ret.val.exact.cToKOfFToC
        /\ ret.val.exact.kToF = ret.val.exact.cToFOfKToC
        /\ WithinRounding(ret.val.double.fToCOfCToF, ret.val.double.x, ret.val.double.x)
        /\ WithinRounding(ret.val.double.kToCOfCToK, ret.val.double.x, ret.val.double.x)
        /\ WithinRounding(ret.val.double.fToK, ret.val.double.cToKOfFToC, ret.val.double.x)
        /\ WithinRounding(ret.val.double.kToF, ret.val.double.cToFOfKToC, ret.val.double.x)

C27_Witness ==
    /\ pc = "returned" /\ call.fn = "temperatureFormulas" /\ call.args = <<-4000, 2>>
    /\ ret.val.exact.cToF = Ratio(-40, 1)
    /\ ret.val.exact.fToCOfCToF = Ratio(-40, 1)
    /\ ret.val.exact.kToF = Ratio(-53167, 100)

OffsetThenDifference == pc = "returned" /\ call.fn = "dateRoundTrip"

\* C28 as claimed: for every start date at local midnight and every whole
\* number n of days, the date mode counts n days from the start date to the
\* end date the days mode computes for n
C28_ModesAgree ==
    OffsetThenDifference /\ WholeDaysTyped
        => /\ ret.val.difference.daysDiff # Null
           /\ DEq(ret.val.difference.daysDiff, FromInt(TypedDays))

\* C28: for every start date at local midnight and every whole number n of
\* days that leads to a date a Date can hold, the date mode counts n days
\* from the start date to the end date the days mode computes for n, across
\* month ends, year ends, leap days and daylight saving transitions
C28_ModesAgreeInRange ==
    OffsetThenDifference /\ WholeDaysTyped
                         /\ LocalDay(call.args[1]) + TypedDays \in DateRange
        => /\ ret.val.difference.daysDiff # Null
           /\ DEq(ret.val.difference.daysDiff, FromInt(TypedDays))
           /\ DEq(ret.val.difference.daysDiff, ret.val.offset.daysDiff)

C28_Witness ==
    /\ OffsetThenDifference /\ zone.id = "America/New_York"
    /\ call.args[1] = MakeDate(UTCDayTime(zone, <<DaysFromCivil(2025, 11, 1), 0>>))
    /\ call.args[2] = <<"2">>
    /\ DSub(ret.val.offset.endDate, call.args[1]) = FromInt(49 * 3600000)
    /\ ret.val.difference.daysDiff = FromInt(2)

AdjustedThenCompared == pc = "returned" /\ call.fn = "PercentOfThenCompare"

\* C29 as claimed: for every finite base other than 0 and every finite
\* percent p, comparing base with base * (1 + p / 100) gives percent p and
\* diff base * p / 100; for base 0 the adjusted value is 0 and percent is 0
C29_ModesInverse ==
    AdjustedThenCompared /\ IsFinite(call.args[1]) /\ IsFinite(call.args[2]) =>
        IF DEq(call.args[1], Zero(0))
        THEN DEq(ret.val.adjusted, Zero(0)) /\ ret.val.compared.percent = Zero(0)
        ELSE /\ DEq(ret.val.compared.percent, call.args[2])
             /\ DEq(ret.val.compared.diff, DDiv(DMul(call.args[1], call.args[2]), FromInt(100)))

\* a base between 2^-500 and 2^500 in size and a percent of at most 2^30
FarFromLimits(base, p) ==
    /\ DLe(TwoTo(-500), MathAbs(base)) /\ DLe(MathAbs(base), TwoTo(500))
    /\ DLe(MathAbs(p), TwoTo(30))

\* C29: for every finite base other than 0 and every finite percent p far
\* from the limits of the doubles, comparing base with base * (1 + p / 100)
\* gives percent p and diff base * p / 100 up to rounding: percent within
\* 2^-40 (100 + |p|) of p and diff within 2^-40 |base| (1 + |p| / 100) of
\* base * p / 100; for base 0 and every finite p the adjusted value is 0 and
\* percent is 0
C29_ModesInverseUpToRounding ==
    AdjustedThenCompared /\ IsFinite(call.args[1]) /\ IsFinite(call.args[2]) =>
        IF DEq(call.args[1], Zero(0))
        THEN DEq(ret.val.adjusted, Zero(0)) /\ ret.val.compared.percent = Zero(0)
        ELSE FarFromLimits(call.args[1], call.args[2]) =>
             /\ DLe(MathAbs(DSub(ret.val.compared.percent, call.args[2])),
                    DMul(TwoTo(-40), DAdd(FromInt(100), MathAbs(call.args[2]))))
             /\ DLe(MathAbs(DSub(ret.val.compared.diff,
                                 DDiv(DMul(call.args[1], call.args[2]), FromInt(100)))),
                    DMul(DMul(TwoTo(-40), MathAbs(call.args[1])),
                         DAdd(FromInt(1), DDiv(MathAbs(call.args[2]), FromInt(100)))))

C29_Witness ==
    /\ AdjustedThenCompared
    /\ call.args = <<FromInt(200), Dec(25, 1)>>
    /\ DLt(Dec(20499, 2), ret.val.adjusted) /\ DLt(ret.val.adjusted, Dec(20501, 2))
    /\ DLt(Dec(2499, 3), ret.val.compared.percent) /\ DLt(ret.val.compared.percent, Dec(2501, 3))

\* C30: after the load and after every save, cancel and reset of the
\* dialog, the preference of each conversion category is a string among the
\* unit names the page offers for the category, and the category's
\* getUnitIdFromName resolves it
C30_PreferencesAreOfferedUnits ==
    hook.mounted =>
        \A c \in ConversionCategories :
            /\ getDefaultUnit(hook, c).t = "string"
            /\ \E j \in 1..Len(UnitsOffered(categories, c)) :
                   UnitsOffered(categories, c)[j] = getDefaultUnit(hook, c).s
            /\ HasUnitId(getUnitIdFunction(c, getDefaultUnit(hook, c).s))
====
